---------------------------- MODULE Spec2Model ----------------------------
(***************************************************************************)
(* Floating-origin frame conversion and hybrid rails/physics propagation   *)
(* of hack-club-space-program, as a state machine over one fixed tick      *)
(* pipeline.                                                               *)
(*                                                                         *)
(* Conventions of the model                                                *)
(*  - a vector is a pair <<x, y>> of integers; a double-precision value is *)
(*    an exact integer (all magnitudes stay far below 2^53); a single-     *)
(*    precision value is an integer with at most F32_MANTISSA_DIGITS       *)
(*    significant bits, produced by AsF32 (round to nearest, ties to even) *)
(*  - one fixed timestep is one unit of time, so elapsed = tick, delta = 1 *)
(*  - an angle is represented by the primitive lattice vector pointing in  *)
(*    its direction and a radius by its square, so that atan2 / length /   *)
(*    from_angle are computed and not assumed                              *)
(*  - the orbital-mechanics library (keplerian_sim) is outside the         *)
(*    repository; it is modelled by its contract with a circular motion    *)
(*    of a quarter turn per timestep                                       *)
(*  - products with the gravitational constant are kept symbolic           *)
(***************************************************************************)
EXTENDS Integers, Sequences, FiniteSets, TLC

\* ------------------------------------------------------------------ bounds

\* Number of fixed ticks explored.
MaxTick == 2

\* ------------------------------------------------------------ vector math

Abs(x) == IF x < 0 THEN -x ELSE x

VAdd(a, b) == <<a[1] + b[1], a[2] + b[2]>>

VSub(a, b) == <<a[1] - b[1], a[2] - b[2]>>

VScale(a, k) == <<a[1] * k, a[2] * k>>

VNeg(a) == <<-a[1], -a[2]>>

ZERO == <<0, 0>>

LengthSquared(a) == a[1] * a[1] + a[2] * a[2]

RECURSIVE Gcd(_, _)
Gcd(a, b) == IF b = 0 THEN a ELSE Gcd(b, a % b)

\* The direction of a vector as a primitive lattice vector; the zero vector
\* has no direction.
Direction(a) ==
    LET g == Gcd(Abs(a[1]), Abs(a[2]))
    IN  IF g = 0 THEN ZERO ELSE <<a[1] \div g, a[2] \div g>>

\* DVec2::normalize_or_zero
normalize_or_zero(a) == Direction(a)

\* DVec2::to_angle: atan2(y, x); atan2(0, 0) is the angle 0.
to_angle(a) == IF a = ZERO THEN <<1, 0>> ELSE Direction(a)

\* DVec2::length, kept as its square.
length(a) == LengthSquared(a)

ISqrt(n) == CHOOSE k \in 0..n : k * k <= n /\ (k + 1) * (k + 1) > n

\* DVec2::from_angle(angle) * radius
from_angle_times(angle, radius) ==
    VScale(angle, ISqrt(radius \div LengthSquared(angle)))

\* A quarter turn counter-clockwise, n times.
RECURSIVE Rotate(_, _)
Rotate(a, n) == IF n = 0 THEN a ELSE Rotate(<<-a[2], a[1]>>, n - 1)

\* ------------------------------------------------------- single precision

F32_MANTISSA_DIGITS == 24

RECURSIVE Pow2(_)
Pow2(n) == IF n = 0 THEN 1 ELSE 2 * Pow2(n - 1)

RECURSIVE BitLen(_)
BitLen(n) == IF n = 0 THEN 0 ELSE 1 + BitLen(n \div 2)

\* f64 -> f32 narrowing of one coordinate.
AsF32(x) ==
    LET a == Abs(x)
        e == BitLen(a) - F32_MANTISSA_DIGITS
    IN  IF e <= 0 THEN x
        ELSE LET q    == Pow2(e)
                 r    == a % q
                 lo   == a - r
                 up   == IF 2 * r > q \/ (2 * r = q /\ (lo \div q) % 2 = 1)
                         THEN lo + q ELSE lo
             IN  IF x < 0 THEN -up ELSE up

\* DVec2::as_vec2
as_vec2(a) == <<AsF32(a[1]), AsF32(a[2])>>

\* f64::from(f32) on both coordinates: every single is a double.
as_dvec2(a) == a

\* ------------------------------------------- frame types (frames.rs)

\* to_rigid_space_position with the subtraction the other way round.
to_rigid_space_position_Swapped(p, active_vessel_pos) == as_vec2(VSub(active_vessel_pos, p))

\* RootSpacePosition::to_rigid_space_position
to_rigid_space_position(p, active_vessel_pos) == as_vec2(VSub(p, active_vessel_pos))

\* RigidSpacePosition::to_root_space_position
to_root_space_position(r, active_vessel_pos) == VAdd(active_vessel_pos, as_dvec2(r))

\* to_rigid_space_linear_velocity without the origin's velocity.
to_rigid_space_linear_velocity_NoOrigin(v, active_vessel_vel) == as_vec2(v)

\* RootSpaceLinearVelocity::to_rigid_space_linear_velocity
to_rigid_space_linear_velocity(v, active_vessel_vel) == as_vec2(VSub(v, active_vessel_vel))

\* RigidSpaceLinearVelocity::to_rigid_space_velocity: the linear part of the
\* Velocity; the angular part is not modelled.
to_rigid_space_velocity(linvel) == linvel

\* RigidSpaceLinearVelocity::to_root_space_linear_velocity
to_root_space_linear_velocity(r, active_vessel_vel) == VAdd(active_vessel_vel, as_dvec2(r))

\* RigidSpaceVelocityImpl::to_root_space_linear_velocity (on the full Velocity)
velocity_to_root_space_linear_velocity(linvel, active_vessel_vel) ==
    VAdd(active_vessel_vel, as_dvec2(linvel))

\* RootSpacePosition::to_camera_space_transform (translation part)
to_camera_space_transform(p, camera_offset, camera_zoom) ==
    as_vec2(VScale(VSub(p, camera_offset), camera_zoom))

\* --------------------------------------------- rail modes (relations.rs)

RailNone == [kind |-> "None"]

RailOrbit(o) == [kind |-> "Orbit", orbit |-> o]

\* SurfaceAttachment { angle, radius }
RailSurface(angle, radius) == [kind |-> "Surface", angle |-> angle, radius |-> radius]

\* G * x, kept symbolic.
GTimes(x) == <<"G", x>>

\* StateVectors2D::to_cached_orbit(mu, epoch) of the orbital-mechanics
\* library: an orbit description that reproduces the state vectors at epoch.
to_cached_orbit(position, velocity, mu, epoch) ==
    [position |-> position, velocity |-> velocity, mu |-> mu, epoch |-> epoch]

\* OrbitTrait2D::get_state_vectors_at_time
get_state_vectors_at_time(o, time) ==
    LET n == (time - o.epoch) % 4
    IN  [position |-> Rotate(o.position, n), velocity |-> Rotate(o.velocity, n)]

\* The outcome of evaluating RailMode::None (unreachable!()): no state
\* vectors, a panic.
PanicSv == [position |-> <<>>, velocity |-> <<>>]

\* The evaluation of the rail mode panicked.
Panics(rel_sv) == rel_sv.position = <<>>

\* The result of a walk that a panic has unwound.
Panicked == <<>>

\* convert_rail_to_relative_sv
convert_rail_to_relative_sv(rail, time) ==
    IF rail.kind = "None" THEN PanicSv
    ELSE IF rail.kind = "Orbit" THEN get_state_vectors_at_time(rail.orbit, time)
    ELSE [position |-> from_angle_times(rail.angle, rail.radius), velocity |-> ZERO]

\* ------------------------------------------------------------ the world

\* Entities in spawn order: three celestial bodies and three vessels.
Entities == {"alpha", "beta", "gamma", "rove", "base", "sat"}

SpawnOrder == <<"alpha", "beta", "gamma", "rove", "base", "sat">>

\* With<CelestialBody>
CelestialBody == {"alpha", "beta", "gamma"}

\* With<Vessel>
Vessel == {"rove", "base", "sat"}

\* Entity::PLACEHOLDER / no such component
NoEntity == "none"

\* A component that the entity does not have.
Absent == <<>>

VARIABLES
    plugin,            \* which plugin scheduled the fixed-tick systems
    celestial_parent,  \* CelestialParent / ParentBody of each entity
    disabled,          \* entities with RigidBodyDisabled
    mass,              \* AdditionalMassProperties
    root_pos,          \* RootSpacePosition
    root_vel,          \* RootSpaceLinearVelocity
    rail_mode,         \* RailMode
    external_force,    \* ExternalForce.force
    rigid_tf,          \* RigidSpaceTransform translation, or Absent
    transform,         \* Transform translation
    velocity,          \* RigidSpaceVelocity = Velocity, linear part
    active_vessel,     \* the ActiveVessel resource
    sim_camera,        \* the active SimCamera: offset and zoom
    contact,           \* vessels with an active contact with their parent
    tick,              \* number of the fixed tick: Time<Fixed>::elapsed
    grp,               \* index of the system set being run in the tick
    done,              \* systems of that set that have run
    ran,               \* systems run in this tick, in order
    disturbed,         \* vessels whose velocity the physics step changed
    origin_at_pre,     \* the snapshot the pre-switch of this tick used
    built_vel,         \* the root velocities given at construction
    conv,              \* a function exercised on its own: its inputs and results
    panicked,          \* a system has panicked: the app has stopped
    control_mode,      \* State<GameControlMode>
    next_mode,         \* NextState<GameControlMode>: Unchanged or the pending mode
    keyboard,          \* ButtonInput<KeyCode>: the keys just pressed this frame
    frame              \* the schedule of the frame that runs next

vars == <<plugin, celestial_parent, disabled, mass, root_pos, root_vel,
          rail_mode, external_force, rigid_tf, transform, velocity,
          active_vessel, sim_camera, contact, tick, grp, done, ran,
          disturbed, origin_at_pre, built_vel, conv, panicked,
          control_mode, next_mode, keyboard, frame>>

\* every variable of the simulated world
world == <<plugin, celestial_parent, disabled, mass, root_pos, root_vel,
           rail_mode, external_force, rigid_tf, transform, velocity,
           active_vessel, sim_camera, contact, tick, grp, done, ran,
           disturbed, origin_at_pre, built_vel, panicked>>

\* the variables of the control-mode state machine
controls == <<control_mode, next_mode, keyboard, frame>>

\* FilterLoadedVessels
FilterLoadedVessels(e) == e \in Vessel /\ e \notin disabled /\ e \notin CelestialBody

\* FilterUnloadedVessels
FilterUnloadedVessels(e) == e \in Vessel /\ e \in disabled /\ e \notin CelestialBody

\* FilterUnloadedVesselOrCelestialBody
FilterUnloadedVesselOrCelestialBody(e) == FilterUnloadedVessels(e) \/ e \in CelestialBody

\* CelestialChildren of an entity, in spawn order.
CelestialChildren(n) == SelectSeq(SpawnOrder, LAMBDA e : celestial_parent[e] = n)

\* Time<Fixed>
elapsed == tick

delta == 1

\* ExternalForce::default()
ZeroForce == [gmm |-> GTimes(0), r_sq |-> <<1, 1>>, direction |-> ZERO]

\* --------------------------------------------------------- construction

\* A position too far from the others for single precision.
FarAway == <<33554433, 0>>

\* Orbits given to celestial bodies at construction (Orbit2D::new_circular).
BetaOrbit == to_cached_orbit(<<2, 0>>, <<0, 1>>, GTimes(3), 0)

GammaOrbit == to_cached_orbit(<<0, 1>>, <<-1, 0>>, GTimes(2), 0)

\* Sum of the rail velocities, at the given time, of an entity and its
\* ancestors below the forest root, for a parent map and rail modes.
RECURSIVE RailVelocity(_, _, _, _)
RailVelocity(par, rails, e, time) ==
    IF e = NoEntity \/ par[e] = NoEntity \/ rails[e].kind = "None" THEN ZERO
    ELSE VAdd(convert_rail_to_relative_sv(rails[e], time).velocity,
              RailVelocity(par, rails, par[e], time))

\* No conversion round trip is in progress.
ConvIdle == [stage |-> "idle"]

\* The constructed world, for the entities the ActiveVessel resource may
\* name and for its presence.  A resource that names an entity without the
\* queried components holds the values of an earlier tick.
WorldWith(actives, presents) ==
    \E pl \in {"physics", "frame_sync"},
       base_parent \in {"beta", "gamma"},
       beta_rail \in {RailOrbit(BetaOrbit), RailNone},
       gamma_rail \in {RailOrbit(GammaOrbit), RailSurface(<<0, 1>>, 1)},
       rove_rail \in {RailSurface(<<-1, 0>>, 1), RailNone},
       base_mass \in {0, 1},
       base_matched \in BOOLEAN,
       active \in actives,
       present \in presents,
       far \in BOOLEAN :
      LET par == [e \in Entities |->
                    CASE e = "alpha" -> NoEntity
                      [] e = "beta"  -> "alpha"
                      [] e = "gamma" -> "beta"
                      [] e = "rove"  -> "beta"
                      [] e = "base"  -> base_parent
                      [] e = "sat"   -> "alpha"]
          rails == [e \in Entities |->
                    CASE e = "beta"  -> beta_rail
                      [] e = "gamma" -> gamma_rail
                      [] e = "rove"  -> rove_rail
                      [] OTHER       -> RailNone]
          pos == [e \in Entities |->
                    CASE e = "base" -> <<3, 0>>
                      [] e = "sat"  -> IF far THEN FarAway ELSE <<0, 4>>
                      [] OTHER      -> ZERO]
          vel == [e \in Entities |->
                    CASE e = "base" -> IF base_matched
                                       THEN RailVelocity(par, rails, base_parent, 0)
                                       ELSE <<1, 0>>
                      [] e = "sat"  -> <<1, 0>>
                      [] OTHER      -> ZERO]
      IN  /\ (far => pl = "frame_sync")
          /\ plugin = pl
          /\ celestial_parent = par
          /\ disabled = {"rove"}
          /\ mass = [e \in Entities |->
                       CASE e = "alpha" -> 3
                         [] e = "beta"  -> 2
                         [] e = "base"  -> base_mass
                         [] OTHER       -> 1]
          /\ root_pos = pos
          /\ root_vel = vel
          /\ rail_mode = rails
          /\ external_force = [e \in Entities |-> ZeroForce]
          /\ rigid_tf = [e \in Entities |-> Absent]
          /\ transform = [e \in Entities |-> ZERO]
          /\ velocity = [e \in Entities |-> ZERO]
          /\ active_vessel =
                IF active \in Entities /\ par[active] # NoEntity
                THEN [present |-> present, entity |-> active,
                      prev_tick_position |-> pos[active],
                      prev_tick_velocity |-> vel[active],
                      prev_tick_parent |-> par[active]]
                ELSE [present |-> present, entity |-> active,
                      prev_tick_position |-> <<3, 0>>,
                      prev_tick_velocity |-> <<1, 0>>,
                      prev_tick_parent |-> "beta"]
          /\ sim_camera = [attached |-> TRUE, entity |-> active,
                           last_known_pos |-> ZERO, offset |-> ZERO, zoom |-> 1]
          /\ contact = {}
          /\ tick = 1
          /\ grp = 1
          /\ done = {}
          /\ ran = <<>>
          /\ disturbed = {}
          /\ origin_at_pre = Absent
          /\ built_vel = vel
          /\ panicked = FALSE

\* The world of the simulation: the ActiveVessel resource is present and
\* names a loaded vessel.
InitWorld == WorldWith({"base", "sat"}, {TRUE})

\* ------------------- control modes (resources/mod.rs, systems/controls)

\* GameControlMode
GameControlMode == {"Main", "Menu", "VesselControl", "CameraControl"}

\* NextState::Unchanged: no transition is pending.
Unchanged == "Unchanged"

\* consts/keybinds.rs
KB_MODE_SWITCH_TO_MAIN_MODE == {"Escape"}

KB_MODE_SWITCH_TO_MENU_MODE == {"KeyM"}

KB_MODE_SWITCH_TO_VESSEL_MODE == {"KeyV"}

KB_MODE_SWITCH_TO_CAM_MODE == {"KeyC"}

\* The keys of the keyboard: the four mode keys and one key of the camera
\* controls.
KeyCode == {"Escape", "KeyM", "KeyV", "KeyC", "KeyW"}

\* ButtonInput::any_just_pressed, on a set of keys just pressed
any_just_pressed(pressed, keys) == pressed \cap keys # {}

\* mode_switches! in which the first pair whose key was pressed wins.
RECURSIVE mode_switches_FirstWins(_, _, _)
mode_switches_FirstWins(pressed, pending, switches) ==
    IF switches = <<>> THEN pending
    ELSE IF any_just_pressed(pressed, Head(switches)[1])
         THEN Head(switches)[2]
         ELSE mode_switches_FirstWins(pressed, pending, Tail(switches))

\* mode_switches!: for each pair of keys and mode, in order, set the next
\* mode when one of the keys was just pressed.
RECURSIVE mode_switches(_, _, _)
mode_switches(pressed, pending, switches) ==
    IF switches = <<>> THEN pending
    ELSE mode_switches(pressed,
                       IF any_just_pressed(pressed, Head(switches)[1])
                       THEN Head(switches)[2] ELSE pending,
                       Tail(switches))

\* control_switching without the early return of the modes other than Main.
control_switching_inner_NoReturn(mode, pending, pressed) ==
    LET is_main == mode = "Main"
        after_main == IF any_just_pressed(pressed, KB_MODE_SWITCH_TO_MAIN_MODE) /\ ~is_main
                      THEN "Main" ELSE pending
    IN  mode_switches(pressed, after_main,
                      << <<KB_MODE_SWITCH_TO_MENU_MODE, "Menu">>,
                         <<KB_MODE_SWITCH_TO_VESSEL_MODE, "VesselControl">>,
                         <<KB_MODE_SWITCH_TO_CAM_MODE, "CameraControl">> >>)

\* The body of control_switching: the NextState it leaves, for the current
\* mode, the NextState it found and the keys just pressed.
control_switching_inner(mode, pending, pressed) ==
    LET is_main == mode = "Main"
        after_main == IF any_just_pressed(pressed, KB_MODE_SWITCH_TO_MAIN_MODE) /\ ~is_main
                      THEN "Main" ELSE pending
    IN  IF ~is_main THEN after_main
        ELSE mode_switches(pressed, after_main,
                           << <<KB_MODE_SWITCH_TO_MENU_MODE, "Menu">>,
                              <<KB_MODE_SWITCH_TO_VESSEL_MODE, "VesselControl">>,
                              <<KB_MODE_SWITCH_TO_CAM_MODE, "CameraControl">> >>)

\* App::init_state::<GameControlMode>(): the default mode, nothing pending.
InitControls ==
    /\ control_mode = "Main"
    /\ next_mode = Unchanged
    /\ keyboard = {}
    /\ frame = "PreUpdate"

\* PreUpdate: the input system of the engine records the keys that were
\* pressed since the last frame.
keyboard_input_system ==
    /\ frame = "PreUpdate"
    /\ \E pressed \in SUBSET KeyCode : keyboard' = pressed
    /\ frame' = "StateTransition"
    /\ UNCHANGED <<control_mode, next_mode, world, conv>>

\* StateTransition: the engine makes a pending mode the current one.
apply_state_transition ==
    /\ frame = "StateTransition"
    /\ IF next_mode = Unchanged
       THEN UNCHANGED <<control_mode, next_mode>>
       ELSE control_mode' = next_mode /\ next_mode' = Unchanged
    /\ frame' = "Update"
    /\ UNCHANGED <<keyboard, world, conv>>

\* Update: control_switching
control_switching ==
    /\ frame = "Update"
    /\ next_mode' = control_switching_inner(control_mode, next_mode, keyboard)
    /\ frame' = "PreUpdate"
    /\ UNCHANGED <<control_mode, keyboard, world, conv>>

\* ------------------------------------------------- the initial states

Init == InitWorld /\ conv = ConvIdle /\ InitControls

\* ------------------------------------------------------- the schedules

\* HcspPhysicsPlugin::build with write_sv_to_rail scheduled between gravity
\* and rail propagation.
HcspPhysicsPlugin_RailFirst ==
    << {"apply_gravity", "unapply_gravity_to_unloaded"},
       {"write_sv_to_rail"},
       {"write_rail_to_sv"},
       {"apply_root_velocity"},
       {"update_active_vessel_resource"},
       {"pre_rapier_frame_switch"},
       {"step_simulation"},
       {"write_rigid_vel_to_root", "write_rigid_pos_to_root"},
       {"post_rapier_frame_switch"} >>

\* HcspPhysicsPlugin::build with the snapshot update scheduled after the
\* physics step.
HcspPhysicsPlugin_SnapshotLate ==
    << {"apply_gravity", "unapply_gravity_to_unloaded", "write_rail_to_sv"},
       {"apply_root_velocity"},
       {"pre_rapier_frame_switch"},
       {"step_simulation"},
       {"update_active_vessel_resource"},
       {"write_rigid_vel_to_root", "write_rigid_pos_to_root"},
       {"post_rapier_frame_switch", "write_sv_to_rail"} >>

\* HcspPhysicsPlugin::build: the sets of systems of one fixed tick, chained
\* in this order; the systems of one set are not ordered among themselves.
\* FixedPreUpdate, then the physics step of FixedUpdate, then FixedPostUpdate.
HcspPhysicsPlugin ==
    << {"apply_gravity", "unapply_gravity_to_unloaded", "write_rail_to_sv"},
       {"apply_root_velocity"},
       {"update_active_vessel_resource"},
       {"pre_rapier_frame_switch"},
       {"step_simulation"},
       {"write_rigid_vel_to_root", "write_rigid_pos_to_root"},
       {"post_rapier_frame_switch", "write_sv_to_rail"} >>

\* FrameSyncPlugin with the root-to-rigid conversion ahead of the snapshot
\* update.
FrameSyncPlugin_ConvertFirst ==
    << {"sync_root_to_rigid"},
       {"update_active_vessel_resource"},
       {"pre_rapier_frame_switch"},
       {"step_simulation"},
       {"sync_rigid_vel_to_root"},
       {"sync_rigid_pos_to_root"},
       {"post_rapier_frame_switch"},
       {"apply_root_velocity"} >>

\* FrameSyncPlugin::build
FrameSyncPlugin ==
    << {"update_active_vessel_resource"},
       {"sync_root_to_rigid"},
       {"pre_rapier_frame_switch"},
       {"step_simulation"},
       {"sync_rigid_vel_to_root"},
       {"sync_rigid_pos_to_root"},
       {"post_rapier_frame_switch"},
       {"apply_root_velocity"} >>

Schedule == IF plugin = "physics" THEN HcspPhysicsPlugin ELSE FrameSyncPlugin

\* The system may run now: it belongs to the current set and has not run.
Runnable(system) ==
    /\ ~panicked
    /\ grp <= Len(Schedule)
    /\ system \in Schedule[grp]
    /\ system \notin done

\* Bookkeeping of the executor after a system has run.
Finish(system) ==
    /\ ran' = Append(ran, system)
    /\ IF done \cup {system} = Schedule[grp]
       THEN grp' = grp + 1 /\ done' = {}
       ELSE grp' = grp /\ done' = done \cup {system}
    /\ UNCHANGED <<plugin, celestial_parent, disabled, mass, tick, built_vel, conv,
                   panicked, controls>>

\* The fixed main loop starts the next tick: Time<Fixed> advances by one
\* timestep.
run_fixed_main_schedule ==
    /\ ~panicked
    /\ grp = Len(Schedule) + 1
    /\ tick < MaxTick
    /\ tick' = tick + 1
    /\ grp' = 1
    /\ done' = {}
    /\ ran' = <<>>
    /\ origin_at_pre' = Absent
    /\ UNCHANGED <<plugin, celestial_parent, disabled, mass, root_pos, root_vel,
                   rail_mode, external_force, rigid_tf, transform, velocity,
                   active_vessel, sim_camera, contact, disturbed, built_vel, conv,
                   panicked, controls>>

\* ------------------------------------------------- gravity (gravity.rs)

\* Query<ParentData, (With<CelestialBody>, Without<Vessel>)>::get
IsCelestialParent(e) == e \in CelestialBody /\ e \notin Vessel

\* The floor of r_sq in apply_gravity_inner, 1e-9 m^2, with the lengths of
\* the model read in units of 10^-5 m.
R_SQ_FLOOR == 10

\* f64::max
Max(a, b) == IF a < b THEN b ELSE a

\* apply_gravity_inner dividing by the squared separation itself.
apply_gravity_inner_NoFloor(vessel) ==
    LET parent  == celestial_parent[vessel]
        rel_pos == VSub(root_pos[vessel], root_pos[parent])
        r_sq    == <<LengthSquared(rel_pos), 1>>
        grav_direction == VNeg(normalize_or_zero(rel_pos))
        m1 == mass[vessel]
        m2 == mass[parent]
    IN  IF ~IsCelestialParent(parent) THEN external_force[vessel]
        ELSE IF m1 * m2 = 0 \/ grav_direction = ZERO THEN ZeroForce
        ELSE [gmm |-> GTimes(m1 * m2), r_sq |-> r_sq, direction |-> grav_direction]

\* apply_gravity_inner: the force written for a vessel, G * m1 * m2 / r_sq
\* times the direction towards the parent, r_sq being the squared
\* separation raised to the floor.  The product with a zero direction or a
\* zero mass is the zero force.  A vessel whose parent is not matched by the
\* celestials query keeps the force it has.
apply_gravity_inner(vessel) ==
    LET parent  == celestial_parent[vessel]
        rel_pos == VSub(root_pos[vessel], root_pos[parent])
        r_sq    == <<Max(LengthSquared(rel_pos), R_SQ_FLOOR), 1>>
        grav_direction == VNeg(normalize_or_zero(rel_pos))
        m1 == mass[vessel]
        m2 == mass[parent]
    IN  IF ~IsCelestialParent(parent) THEN external_force[vessel]
        ELSE IF m1 * m2 = 0 \/ grav_direction = ZERO THEN ZeroForce
        ELSE [gmm |-> GTimes(m1 * m2), r_sq |-> r_sq, direction |-> grav_direction]

apply_gravity ==
    /\ Runnable("apply_gravity")
    /\ external_force' = [e \in Entities |->
          IF FilterLoadedVessels(e) /\ celestial_parent[e] # NoEntity
          THEN apply_gravity_inner(e) ELSE external_force[e]]
    /\ Finish("apply_gravity")
    /\ UNCHANGED <<root_pos, root_vel, rail_mode, rigid_tf, transform, velocity,
                   active_vessel, sim_camera, contact, disturbed, origin_at_pre>>

\* unapply_gravity_to_unloaded resetting the loaded vessels.
unapply_gravity_to_unloaded_Loaded ==
    /\ Runnable("unapply_gravity_to_unloaded")
    /\ external_force' = [e \in Entities |->
          IF FilterLoadedVessels(e) THEN ZeroForce ELSE external_force[e]]
    /\ Finish("unapply_gravity_to_unloaded")
    /\ UNCHANGED <<root_pos, root_vel, rail_mode, rigid_tf, transform, velocity,
                   active_vessel, sim_camera, contact, disturbed, origin_at_pre>>

unapply_gravity_to_unloaded ==
    /\ Runnable("unapply_gravity_to_unloaded")
    /\ external_force' = [e \in Entities |->
          IF FilterUnloadedVessels(e) THEN ZeroForce ELSE external_force[e]]
    /\ Finish("unapply_gravity_to_unloaded")
    /\ UNCHANGED <<root_pos, root_vel, rail_mode, rigid_tf, transform, velocity,
                   active_vessel, sim_camera, contact, disturbed, origin_at_pre>>

\* ------------------------------------------- rail systems (rail.rs)

ZERO_SV == <<ZERO, ZERO>>

\* write_sv_to_rail_inner fitting the orbit from the vessel's root velocity
\* instead of its velocity relative to the parent.
write_sv_to_rail_inner_AbsoluteVel(vessel, parent) ==
    LET rel_pos  == VSub(root_pos[vessel], root_pos[parent])
        touching == vessel \in contact
    IN  IF touching
        THEN RailSurface(to_angle(rel_pos), length(rel_pos))
        ELSE RailOrbit(to_cached_orbit(rel_pos, root_vel[vessel],
                                       GTimes(mass[parent]), elapsed))

\* write_sv_to_rail_inner: the rail mode written for a loaded vessel whose
\* parent is a celestial body.
write_sv_to_rail_inner(vessel, parent) ==
    LET rel_pos  == VSub(root_pos[vessel], root_pos[parent])
        touching == vessel \in contact
        rel_vel  == VSub(root_vel[vessel], root_vel[parent])
    IN  IF touching
        THEN RailSurface(to_angle(rel_pos), length(rel_pos))
        ELSE RailOrbit(to_cached_orbit(rel_pos, rel_vel, GTimes(mass[parent]), elapsed))

\* write_sv_to_rail leaving out the entity named by ActiveVessel.
write_sv_to_rail_SkipActive ==
    /\ Runnable("write_sv_to_rail")
    /\ rail_mode' = [e \in Entities |->
          IF /\ FilterLoadedVessels(e)
             /\ celestial_parent[e] # NoEntity
             /\ IsCelestialParent(celestial_parent[e])
             /\ ~(active_vessel.present /\ active_vessel.entity = e)
          THEN write_sv_to_rail_inner(e, celestial_parent[e])
          ELSE rail_mode[e]]
    /\ Finish("write_sv_to_rail")
    /\ UNCHANGED <<root_pos, root_vel, external_force, rigid_tf, transform,
                   velocity, active_vessel, sim_camera, contact, disturbed,
                   origin_at_pre>>

\* write_sv_to_rail classifying unloaded vessels as well.
write_sv_to_rail_AllVessels ==
    /\ Runnable("write_sv_to_rail")
    /\ rail_mode' = [e \in Entities |->
          IF /\ e \in Vessel
             /\ celestial_parent[e] # NoEntity
             /\ IsCelestialParent(celestial_parent[e])
          THEN write_sv_to_rail_inner(e, celestial_parent[e])
          ELSE rail_mode[e]]
    /\ Finish("write_sv_to_rail")
    /\ UNCHANGED <<root_pos, root_vel, external_force, rigid_tf, transform,
                   velocity, active_vessel, sim_camera, contact, disturbed,
                   origin_at_pre>>

write_sv_to_rail ==
    /\ Runnable("write_sv_to_rail")
    /\ rail_mode' = [e \in Entities |->
          IF /\ FilterLoadedVessels(e)
             /\ celestial_parent[e] # NoEntity
             /\ IsCelestialParent(celestial_parent[e])
          THEN write_sv_to_rail_inner(e, celestial_parent[e])
          ELSE rail_mode[e]]
    /\ Finish("write_sv_to_rail")
    /\ UNCHANGED <<root_pos, root_vel, external_force, rigid_tf, transform,
                   velocity, active_vessel, sim_camera, contact, disturbed,
                   origin_at_pre>>

\* Query<NodeData, FilterUnloadedVesselOrCelestialBody>::get_mut succeeds:
\* the node has a rail mode (every entity with a parent has one).
OnRailsQuery(node) ==
    FilterUnloadedVesselOrCelestialBody(node) /\ celestial_parent[node] # NoEntity

\* The off-rails query leaving out the entity named by ActiveVessel.
OffRailsQuery_NotActive(node) ==
    /\ FilterLoadedVessels(node)
    /\ celestial_parent[node] # NoEntity
    /\ ~(active_vessel.present /\ active_vessel.entity = node)

\* Query<SvData, (With<CelestialParent>, FilterLoadedVessels)>::get_mut succeeds
OffRailsQuery(node) ==
    FilterLoadedVessels(node) /\ celestial_parent[node] # NoEntity

\* The walk down the tree of celestial children is recursive.
RECURSIVE write_rail_to_sv_inner(_, _, _, _)
RECURSIVE write_rail_to_sv_each(_, _, _, _)
\* write_rail_to_sv_inner handing its own parent's state vectors, not the
\* ones it has just computed for the node, down to the node's children.
write_rail_to_sv_inner_StaleParent(node, parent_sv, accum_shift, sv) ==
    IF ~OnRailsQuery(node)
    THEN IF ~OffRailsQuery(node) THEN sv
         ELSE <<sv[1], [sv[2] EXCEPT ![node] = VAdd(sv[2][node], accum_shift)]>>
    ELSE IF rail_mode[node].kind = "None" THEN sv
    ELSE LET old_rel_sv == convert_rail_to_relative_sv(rail_mode[node], elapsed - delta)
             new_rel_sv == convert_rail_to_relative_sv(rail_mode[node], elapsed)
             new_root_pos == VAdd(parent_sv[1], new_rel_sv.position)
             new_root_vel == VAdd(parent_sv[2], new_rel_sv.velocity)
             written == <<[sv[1] EXCEPT ![node] = new_root_pos],
                          [sv[2] EXCEPT ![node] = new_root_vel]>>
         IN  write_rail_to_sv_each(
                 CelestialChildren(node),
                 parent_sv,
                 VAdd(accum_shift, VSub(new_rel_sv.velocity, old_rel_sv.velocity)),
                 written)

\* write_rail_to_sv_inner handing only the node's own velocity change, not
\* the accumulated one, down to the node's children.
write_rail_to_sv_inner_OwnShiftOnly(node, parent_sv, accum_shift, sv) ==
    IF ~OnRailsQuery(node)
    THEN IF ~OffRailsQuery(node) THEN sv
         ELSE <<sv[1], [sv[2] EXCEPT ![node] = VAdd(sv[2][node], accum_shift)]>>
    ELSE IF rail_mode[node].kind = "None" THEN sv
    ELSE LET old_rel_sv == convert_rail_to_relative_sv(rail_mode[node], elapsed - delta)
             new_rel_sv == convert_rail_to_relative_sv(rail_mode[node], elapsed)
             new_root_pos == VAdd(parent_sv[1], new_rel_sv.position)
             new_root_vel == VAdd(parent_sv[2], new_rel_sv.velocity)
             written == <<[sv[1] EXCEPT ![node] = new_root_pos],
                          [sv[2] EXCEPT ![node] = new_root_vel]>>
         IN  write_rail_to_sv_each(
                 CelestialChildren(node),
                 <<new_root_pos, new_root_vel>>,
                 VSub(new_rel_sv.velocity, old_rel_sv.velocity),
                 written)

\* write_rail_to_sv_inner without the velocity shift of vessels off rails.
write_rail_to_sv_inner_NoShift(node, parent_sv, accum_shift, sv) ==
    IF ~OnRailsQuery(node)
    THEN sv
    ELSE IF rail_mode[node].kind = "None" THEN sv
    ELSE LET old_rel_sv == convert_rail_to_relative_sv(rail_mode[node], elapsed - delta)
             new_rel_sv == convert_rail_to_relative_sv(rail_mode[node], elapsed)
             new_root_pos == VAdd(parent_sv[1], new_rel_sv.position)
             new_root_vel == VAdd(parent_sv[2], new_rel_sv.velocity)
             written == <<[sv[1] EXCEPT ![node] = new_root_pos],
                          [sv[2] EXCEPT ![node] = new_root_vel]>>
         IN  write_rail_to_sv_each(
                 CelestialChildren(node),
                 <<new_root_pos, new_root_vel>>,
                 VAdd(accum_shift, VSub(new_rel_sv.velocity, old_rel_sv.velocity)),
                 written)

\* write_rail_to_sv_inner evaluating the rail mode of every node the on-rails
\* query finds, without looking whether it is None.
write_rail_to_sv_inner_EvaluateNone(node, parent_sv, accum_shift, sv) ==
    IF ~OnRailsQuery(node)
    THEN IF ~OffRailsQuery(node) THEN sv
         ELSE <<sv[1], [sv[2] EXCEPT ![node] = VAdd(sv[2][node], accum_shift)]>>
    ELSE LET old_rel_sv == convert_rail_to_relative_sv(rail_mode[node], elapsed - delta)
             new_rel_sv == convert_rail_to_relative_sv(rail_mode[node], elapsed)
         IN  IF Panics(old_rel_sv) \/ Panics(new_rel_sv) THEN Panicked
             ELSE LET new_root_pos == VAdd(parent_sv[1], new_rel_sv.position)
                      new_root_vel == VAdd(parent_sv[2], new_rel_sv.velocity)
                      written == <<[sv[1] EXCEPT ![node] = new_root_pos],
                                   [sv[2] EXCEPT ![node] = new_root_vel]>>
                  IN  write_rail_to_sv_each(
                          CelestialChildren(node),
                          <<new_root_pos, new_root_vel>>,
                          VAdd(accum_shift,
                               VSub(new_rel_sv.velocity, old_rel_sv.velocity)),
                          written)

\* write_rail_to_sv_inner walking on to the children of a node whose rail
\* mode is None, with the state vectors and the shift it was given.
write_rail_to_sv_inner_DescendThroughNone(node, parent_sv, accum_shift, sv) ==
    IF ~OnRailsQuery(node)
    THEN IF ~OffRailsQuery(node) THEN sv
         ELSE <<sv[1], [sv[2] EXCEPT ![node] = VAdd(sv[2][node], accum_shift)]>>
    ELSE IF rail_mode[node].kind = "None"
    THEN write_rail_to_sv_each(CelestialChildren(node), parent_sv, accum_shift, sv)
    ELSE LET old_rel_sv == convert_rail_to_relative_sv(rail_mode[node], elapsed - delta)
             new_rel_sv == convert_rail_to_relative_sv(rail_mode[node], elapsed)
             new_root_pos == VAdd(parent_sv[1], new_rel_sv.position)
             new_root_vel == VAdd(parent_sv[2], new_rel_sv.velocity)
             written == <<[sv[1] EXCEPT ![node] = new_root_pos],
                          [sv[2] EXCEPT ![node] = new_root_vel]>>
         IN  write_rail_to_sv_each(
                 CelestialChildren(node),
                 <<new_root_pos, new_root_vel>>,
                 VAdd(accum_shift, VSub(new_rel_sv.velocity, old_rel_sv.velocity)),
                 written)

\* write_rail_to_sv_inner on a node, and (write_rail_to_sv_each) on a list of
\* nodes that share the parent state vectors and the accumulated shift.  sv is
\* the pair of the root positions and root velocities of all entities,
\* threaded through the walk; the result is sv after the walk, or Panicked
\* when an evaluation of a rail mode panicked and the walk was unwound.
write_rail_to_sv_inner(node, parent_sv, accum_shift, sv) ==
    IF ~OnRailsQuery(node)
    THEN IF ~OffRailsQuery(node) THEN sv
         ELSE <<sv[1], [sv[2] EXCEPT ![node] = VAdd(sv[2][node], accum_shift)]>>
    ELSE IF rail_mode[node].kind = "None" THEN sv
    ELSE LET old_rel_sv == convert_rail_to_relative_sv(rail_mode[node], elapsed - delta)
             new_rel_sv == convert_rail_to_relative_sv(rail_mode[node], elapsed)
             new_root_pos == VAdd(parent_sv[1], new_rel_sv.position)
             new_root_vel == VAdd(parent_sv[2], new_rel_sv.velocity)
             written == <<[sv[1] EXCEPT ![node] = new_root_pos],
                          [sv[2] EXCEPT ![node] = new_root_vel]>>
         IN  IF Panics(old_rel_sv) \/ Panics(new_rel_sv) THEN Panicked
             ELSE write_rail_to_sv_each(
                 CelestialChildren(node),
                 <<new_root_pos, new_root_vel>>,
                 VAdd(accum_shift, VSub(new_rel_sv.velocity, old_rel_sv.velocity)),
                 written)

write_rail_to_sv_each(children, parent_sv, accum_shift, sv) ==
    IF children = <<>> THEN sv
    ELSE LET walked == write_rail_to_sv_inner(Head(children), parent_sv, accum_shift, sv)
         IN  IF walked = Panicked THEN Panicked
             ELSE write_rail_to_sv_each(Tail(children), parent_sv, accum_shift, walked)

\* The roots query yielding every root twice.
Roots_Repeated ==
    LET roots == SelectSeq(SpawnOrder,
                     LAMBDA e : celestial_parent[e] = NoEntity /\ CelestialChildren(e) # <<>>)
    IN  roots \o roots

\* Query<RootData, Without<CelestialParent>>: entities without a parent that
\* have children, in spawn order.
Roots == SelectSeq(SpawnOrder,
                   LAMBDA e : celestial_parent[e] = NoEntity /\ CelestialChildren(e) # <<>>)

RECURSIVE write_rail_to_sv_roots(_, _)
write_rail_to_sv_roots(roots, sv) ==
    IF roots = <<>> THEN sv
    ELSE LET walked == write_rail_to_sv_each(CelestialChildren(Head(roots)),
                                             ZERO_SV, ZERO, sv)
         IN  IF walked = Panicked THEN Panicked
             ELSE write_rail_to_sv_roots(Tail(roots), walked)

\* write_rail_to_sv; a panic stops the app where it is: the system does not
\* finish and no later system runs.
write_rail_to_sv ==
    /\ Runnable("write_rail_to_sv")
    /\ LET sv == write_rail_to_sv_roots(Roots, <<root_pos, root_vel>>)
       IN  IF sv = Panicked
           THEN /\ panicked' = TRUE
                /\ UNCHANGED <<plugin, celestial_parent, disabled, mass, root_pos,
                               root_vel, tick, grp, done, ran, built_vel, conv,
                               controls>>
           ELSE /\ root_pos' = sv[1]
                /\ root_vel' = sv[2]
                /\ Finish("write_rail_to_sv")
    /\ UNCHANGED <<rail_mode, external_force, rigid_tf, transform, velocity,
                   active_vessel, sim_camera, contact, disturbed, origin_at_pre>>

\* ------------------------------------ frame switch (frame_sync.rs)

\* The origin read from the ActiveVessel resource.
Snapshot == [position |-> active_vessel.prev_tick_position,
             velocity |-> active_vessel.prev_tick_velocity,
             parent   |-> active_vessel.prev_tick_parent]

\* The query matching every existing entity, with or without a parent body.
ActiveQuery_AnyEntity(e) == e \in Entities

\* The query of update_active_vessel_resource matches the entity: it has a
\* root position, a root velocity and a parent body.
ActiveQuery(e) == e \in Entities /\ celestial_parent[e] # NoEntity

\* update_active_vessel_resource storing the parent and the velocity but
\* keeping the stored position.
update_active_vessel_resource_StalePosition ==
    /\ Runnable("update_active_vessel_resource")
    /\ IF ~active_vessel.present \/ ~ActiveQuery(active_vessel.entity)
       THEN UNCHANGED <<active_vessel, rigid_tf, velocity>>
       ELSE LET a == active_vessel.entity
            IN  /\ active_vessel' = [active_vessel EXCEPT
                       !.prev_tick_parent = celestial_parent[a],
                       !.prev_tick_velocity = root_vel[a]]
                /\ IF rigid_tf[a] = Absent
                   THEN UNCHANGED <<rigid_tf, velocity>>
                   ELSE /\ rigid_tf' = [e \in Entities |->
                              IF ActiveQuery(e) /\ rigid_tf[e] # Absent
                              THEN as_vec2(VSub(rigid_tf[e], rigid_tf[a]))
                              ELSE rigid_tf[e]]
                        /\ velocity' = [e \in Entities |->
                              IF ActiveQuery(e)
                              THEN as_vec2(VSub(velocity[e], velocity[a]))
                              ELSE velocity[e]]
    /\ Finish("update_active_vessel_resource")
    /\ UNCHANGED <<root_pos, root_vel, rail_mode, external_force, transform,
                   sim_camera, contact, disturbed, origin_at_pre>>

update_active_vessel_resource ==
    /\ Runnable("update_active_vessel_resource")
    /\ IF ~active_vessel.present \/ ~ActiveQuery(active_vessel.entity)
       THEN UNCHANGED <<active_vessel, rigid_tf, velocity>>
       ELSE LET a == active_vessel.entity
            IN  /\ active_vessel' = [active_vessel EXCEPT
                       !.prev_tick_parent = celestial_parent[a],
                       !.prev_tick_position = root_pos[a],
                       !.prev_tick_velocity = root_vel[a]]
                /\ IF rigid_tf[a] = Absent
                   THEN UNCHANGED <<rigid_tf, velocity>>
                   ELSE /\ rigid_tf' = [e \in Entities |->
                              IF ActiveQuery(e) /\ rigid_tf[e] # Absent
                              THEN as_vec2(VSub(rigid_tf[e], rigid_tf[a]))
                              ELSE rigid_tf[e]]
                        /\ velocity' = [e \in Entities |->
                              IF ActiveQuery(e)
                              THEN as_vec2(VSub(velocity[e], velocity[a]))
                              ELSE velocity[e]]
    /\ Finish("update_active_vessel_resource")
    /\ UNCHANGED <<root_pos, root_vel, rail_mode, external_force, transform,
                   sim_camera, contact, disturbed, origin_at_pre>>

sync_root_to_rigid ==
    /\ Runnable("sync_root_to_rigid")
    /\ IF ~active_vessel.present
       THEN UNCHANGED <<rigid_tf, velocity, origin_at_pre>>
       ELSE /\ rigid_tf' = [e \in Entities |->
                  to_rigid_space_position(root_pos[e], active_vessel.prev_tick_position)]
            /\ velocity' = [e \in Entities |->
                  to_rigid_space_velocity(
                      to_rigid_space_linear_velocity(root_vel[e],
                                                     active_vessel.prev_tick_velocity))]
            /\ origin_at_pre' = Snapshot
    /\ Finish("sync_root_to_rigid")
    /\ UNCHANGED <<root_pos, root_vel, rail_mode, external_force, transform,
                   active_vessel, sim_camera, contact, disturbed>>

\* pre_rapier_frame_switch as frame_sync.rs defines it: the rigid-space
\* transform becomes the Transform that the physics engine reads.
pre_rapier_frame_switch ==
    /\ Runnable("pre_rapier_frame_switch")
    /\ plugin = "frame_sync"
    /\ transform' = [e \in Entities |->
          IF rigid_tf[e] # Absent THEN rigid_tf[e] ELSE transform[e]]
    /\ Finish("pre_rapier_frame_switch")
    /\ UNCHANGED <<root_pos, root_vel, rail_mode, external_force, rigid_tf,
                   velocity, active_vessel, sim_camera, contact, disturbed,
                   origin_at_pre>>

\* The pre-switch of the pipeline of HcspPhysicsPlugin: every entity's
\* rigid-space position and velocity are computed from its root values with
\* the snapshot as origin and written into the physics engine's working
\* representation.
pre_switch_root_to_rigid ==
    /\ Runnable("pre_rapier_frame_switch")
    /\ plugin = "physics"
    /\ IF ~active_vessel.present
       THEN UNCHANGED <<transform, velocity, origin_at_pre>>
       ELSE /\ transform' = [e \in Entities |->
                  to_rigid_space_position(root_pos[e], active_vessel.prev_tick_position)]
            /\ velocity' = [e \in Entities |->
                  to_rigid_space_linear_velocity(root_vel[e],
                                                 active_vessel.prev_tick_velocity)]
            /\ origin_at_pre' = Snapshot
    /\ Finish("pre_rapier_frame_switch")
    /\ UNCHANGED <<root_pos, root_vel, rail_mode, external_force, rigid_tf,
                   active_vessel, sim_camera, contact, disturbed>>

\* Velocity changes the physics engine may apply to a body under a force or
\* in contact.
Impulses == {ZERO, <<0, 1>>}

\* The physics engine (bevy_rapier2d) integrates one timestep: celestial
\* bodies are kinematic and move with their velocity, loaded vessels are
\* dynamic, disabled bodies do not take part.  A dynamic body changes its
\* velocity only under an external force or a contact.
step_simulation ==
    /\ Runnable("step_simulation")
    /\ \E touching \in SUBSET {e \in Entities :
                                 FilterLoadedVessels(e) /\ IsCelestialParent(celestial_parent[e])},
          impulse \in Impulses :
          LET dv == [e \in Entities |->
                       IF FilterLoadedVessels(e)
                          /\ (e \in touching \/ external_force[e] # ZeroForce)
                       THEN impulse ELSE ZERO]
              new_vel == [e \in Entities |-> as_vec2(VAdd(velocity[e], dv[e]))]
          IN  /\ velocity' = new_vel
              /\ transform' = [e \in Entities |->
                    IF e \in disabled THEN transform[e]
                    ELSE as_vec2(VAdd(transform[e], VScale(new_vel[e], delta)))]
              /\ contact' = touching
              /\ disturbed' = disturbed \cup {e \in Entities : dv[e] # ZERO}
    /\ Finish("step_simulation")
    /\ UNCHANGED <<root_pos, root_vel, rail_mode, external_force, rigid_tf,
                   active_vessel, sim_camera, origin_at_pre>>

\* sync_rigid_pos_to_root reading the Transform the physics step has
\* advanced instead of the RigidSpaceTransform.
sync_rigid_pos_to_root_FromTransform ==
    /\ Runnable("sync_rigid_pos_to_root")
    /\ IF ~active_vessel.present
       THEN UNCHANGED root_pos
       ELSE root_pos' = [e \in Entities |->
              IF /\ rigid_tf[e] # Absent
                 /\ celestial_parent[e] # NoEntity
                 /\ celestial_parent[e] = active_vessel.prev_tick_parent
              THEN to_root_space_position(transform[e], active_vessel.prev_tick_position)
              ELSE root_pos[e]]
    /\ Finish("sync_rigid_pos_to_root")
    /\ UNCHANGED <<root_vel, rail_mode, external_force, rigid_tf, transform,
                   velocity, active_vessel, sim_camera, contact, disturbed,
                   origin_at_pre>>

sync_rigid_pos_to_root ==
    /\ Runnable("sync_rigid_pos_to_root")
    /\ IF ~active_vessel.present
       THEN UNCHANGED root_pos
       ELSE root_pos' = [e \in Entities |->
              IF /\ rigid_tf[e] # Absent
                 /\ celestial_parent[e] # NoEntity
                 /\ celestial_parent[e] = active_vessel.prev_tick_parent
              THEN to_root_space_position(rigid_tf[e], active_vessel.prev_tick_position)
              ELSE root_pos[e]]
    /\ Finish("sync_rigid_pos_to_root")
    /\ UNCHANGED <<root_vel, rail_mode, external_force, rigid_tf, transform,
                   velocity, active_vessel, sim_camera, contact, disturbed,
                   origin_at_pre>>

sync_rigid_vel_to_root ==
    /\ Runnable("sync_rigid_vel_to_root")
    /\ IF ~active_vessel.present
       THEN UNCHANGED root_vel
       ELSE root_vel' = [e \in Entities |->
              IF /\ celestial_parent[e] # NoEntity
                 /\ celestial_parent[e] = active_vessel.prev_tick_parent
              THEN velocity_to_root_space_linear_velocity(
                       velocity[e], active_vessel.prev_tick_velocity)
              ELSE root_vel[e]]
    /\ Finish("sync_rigid_vel_to_root")
    /\ UNCHANGED <<root_pos, rail_mode, external_force, rigid_tf, transform,
                   velocity, active_vessel, sim_camera, contact, disturbed,
                   origin_at_pre>>

\* The post-switch of the pipeline of HcspPhysicsPlugin, velocity part: the
\* physics engine's rigid-space velocity is converted back with the snapshot
\* as origin and overwrites the root velocity.
write_rigid_vel_to_root ==
    /\ Runnable("write_rigid_vel_to_root")
    /\ IF ~active_vessel.present
       THEN UNCHANGED root_vel
       ELSE root_vel' = [e \in Entities |->
              velocity_to_root_space_linear_velocity(
                  velocity[e], active_vessel.prev_tick_velocity)]
    /\ Finish("write_rigid_vel_to_root")
    /\ UNCHANGED <<root_pos, rail_mode, external_force, rigid_tf, transform,
                   velocity, active_vessel, sim_camera, contact, disturbed,
                   origin_at_pre>>

\* The post-switch of the pipeline of HcspPhysicsPlugin, position part; the
\* transform of a celestial body is reset to the centered placeholder and
\* its root position stays rail-driven.
write_rigid_pos_to_root ==
    /\ Runnable("write_rigid_pos_to_root")
    /\ IF ~active_vessel.present
       THEN UNCHANGED <<root_pos, transform>>
       ELSE /\ root_pos' = [e \in Entities |->
                  IF e \in CelestialBody THEN root_pos[e]
                  ELSE to_root_space_position(transform[e],
                                              active_vessel.prev_tick_position)]
            /\ transform' = [e \in Entities |->
                  IF e \in CelestialBody THEN ZERO ELSE transform[e]]
    /\ Finish("write_rigid_pos_to_root")
    /\ UNCHANGED <<root_vel, rail_mode, external_force, rigid_tf, velocity,
                   active_vessel, sim_camera, contact, disturbed, origin_at_pre>>

\* SimCameraOffset::get_root_position_with_attached_pos: the position
\* returned; the attached camera also remembers the position it was given.
get_root_position_with_attached_pos(cam, attached_obj_pos) ==
    VAdd(attached_obj_pos, cam.offset)

\* SimCameraOffset::get_root_position: the position of the entity the camera
\* is attached to, or the last known one.
AttachedObjPos(cam) ==
    IF cam.entity \in Entities THEN root_pos[cam.entity] ELSE cam.last_known_pos

post_rapier_frame_switch ==
    /\ Runnable("post_rapier_frame_switch")
    /\ LET attached_obj_pos == AttachedObjPos(sim_camera)
           cam_offset == IF sim_camera.attached
                         THEN get_root_position_with_attached_pos(sim_camera, attached_obj_pos)
                         ELSE sim_camera.last_known_pos
       IN  /\ sim_camera' = IF sim_camera.attached
                            THEN [sim_camera EXCEPT !.last_known_pos = attached_obj_pos]
                            ELSE sim_camera
           /\ rigid_tf' = [e \in Entities |->
                 IF rigid_tf[e] # Absent THEN transform[e] ELSE rigid_tf[e]]
           /\ transform' = [e \in Entities |->
                 IF rigid_tf[e] # Absent
                 THEN to_camera_space_transform(root_pos[e], cam_offset, sim_camera.zoom)
                 ELSE transform[e]]
    /\ Finish("post_rapier_frame_switch")
    /\ UNCHANGED <<root_pos, root_vel, rail_mode, external_force, velocity,
                   active_vessel, contact, disturbed, origin_at_pre>>

apply_root_velocity ==
    /\ Runnable("apply_root_velocity")
    /\ root_pos' = [e \in Entities |-> VAdd(root_pos[e], VScale(root_vel[e], delta))]
    /\ Finish("apply_root_velocity")
    /\ UNCHANGED <<root_vel, rail_mode, external_force, rigid_tf, transform,
                   velocity, active_vessel, sim_camera, contact, disturbed,
                   origin_at_pre>>

\* ---------------------------------------------------------- the system

Next ==
    \/ apply_gravity
    \/ unapply_gravity_to_unloaded
    \/ write_rail_to_sv
    \/ apply_root_velocity
    \/ update_active_vessel_resource
    \/ sync_root_to_rigid
    \/ pre_rapier_frame_switch
    \/ pre_switch_root_to_rigid
    \/ step_simulation
    \/ sync_rigid_vel_to_root
    \/ sync_rigid_pos_to_root
    \/ write_rigid_vel_to_root
    \/ write_rigid_pos_to_root
    \/ post_rapier_frame_switch
    \/ write_sv_to_rail
    \/ run_fixed_main_schedule

Spec == Init /\ [][Next]_vars

\* ------------------------------- frame conversion round trips (frames.rs)

\* Coordinates that are exactly representable in single precision.
F32Values == {-16777216, -9, -4, -3, -1, 0, 1, 5, 9, 16777216}

\* The world while only conversions are exercised: one constructed scene.
ParkedWorld ==
    /\ InitWorld
    /\ plugin = "physics"
    /\ celestial_parent["base"] = "beta"
    /\ rail_mode["beta"].kind = "None"
    /\ rail_mode["gamma"].kind = "Orbit"
    /\ rail_mode["rove"].kind = "None"
    /\ mass["base"] = 0
    /\ built_vel["base"] = <<1, 0>>
    /\ active_vessel.entity = "base"

InitFrames ==
    /\ ParkedWorld
    /\ InitControls
    /\ \E px \in F32Values, py \in {-3, 9}, ox \in F32Values,
          v \in {<<-4, -3>>, <<16777216, 1>>}, o_vel \in {<<5, 9>>, <<-1, 0>>} :
          conv = [stage |-> "root", p |-> <<px, py>>, o_pos |-> <<ox, 9>>,
                  v |-> v, o_vel |-> o_vel]

\* tests::root_rigid_conversion, first half: root space to rigid space.
root_rigid_conversion_to_rigid ==
    /\ conv.stage = "root"
    /\ LET rigid_vel == to_rigid_space_linear_velocity(conv.v, conv.o_vel)
       IN  conv' = [stage |-> "rigid", p |-> conv.p, o_pos |-> conv.o_pos,
                    v |-> conv.v, o_vel |-> conv.o_vel,
                    rigid_pos |-> to_rigid_space_position(conv.p, conv.o_pos),
                    rigid_vel |-> rigid_vel,
                    rigid_full |-> to_rigid_space_velocity(rigid_vel)]
    /\ UNCHANGED <<world, controls>>

\* tests::root_rigid_conversion, second half: rigid space back to root space.
root_rigid_conversion_to_root ==
    /\ conv.stage = "rigid"
    /\ conv' = [stage |-> "back", p |-> conv.p, o_pos |-> conv.o_pos,
                v |-> conv.v, o_vel |-> conv.o_vel,
                rigid_pos |-> conv.rigid_pos,
                rigid_vel |-> conv.rigid_vel,
                rigid_full |-> conv.rigid_full,
                back_pos |-> to_root_space_position(conv.rigid_pos, conv.o_pos),
                back_vel |-> to_root_space_linear_velocity(conv.rigid_vel, conv.o_vel),
                back_full |-> velocity_to_root_space_linear_velocity(
                                  conv.rigid_full, conv.o_vel)]
    /\ UNCHANGED <<world, controls>>

NextFrames == root_rigid_conversion_to_rigid \/ root_rigid_conversion_to_root

SpecFrames == InitFrames /\ [][NextFrames]_vars

\* ------------------------------------------ the control-mode state machine

InitControlModes == ParkedWorld /\ conv = ConvIdle /\ InitControls

NextControls == keyboard_input_system \/ apply_state_transition \/ control_switching

SpecControls == InitControlModes /\ [][NextControls]_vars

\* --------------------- the frame switch without a usable active vessel

\* FrameSyncPlugin in a world where the ActiveVessel resource may be absent,
\* may name an entity that no longer exists, or may name the forest root
\* alpha, which has no parent body.
InitActiveVessel ==
    /\ WorldWith({NoEntity, "alpha", "base"}, BOOLEAN)
    /\ plugin = "frame_sync"
    /\ conv = ConvIdle
    /\ InitControls

NextActiveVessel ==
    \/ update_active_vessel_resource
    \/ sync_root_to_rigid
    \/ pre_rapier_frame_switch
    \/ step_simulation
    \/ sync_rigid_vel_to_root
    \/ sync_rigid_pos_to_root
    \/ post_rapier_frame_switch
    \/ apply_root_velocity
    \/ run_fixed_main_schedule

SpecActiveVessel == InitActiveVessel /\ [][NextActiveVessel]_vars

\* ------------------------------------------------- the gravity stage alone

\* A force left in an ExternalForce component by an earlier tick.
StaleForce == [gmm |-> GTimes(5), r_sq |-> <<17, 1>>, direction |-> <<1, 0>>]

\* Worlds for the gravity stage: the loaded vessel base is at, within the
\* floor distance of, or away from its parent beta; sat is loaded or
\* unloaded, with the celestial body alpha or the vessel base as parent; the
\* vessels may carry a force of an earlier tick, which has disturbed them.
InitGravity ==
    /\ \E base_pos \in {ZERO, <<1, 0>>, <<0, -3>>, <<3, 1>>, <<-4, 4>>},
          beta_pos \in {ZERO, <<2, 0>>},
          sat_parent \in {"alpha", "base"},
          sat_unloaded \in BOOLEAN,
          base_mass \in {0, 1, 2},
          stale \in SUBSET Vessel :
          /\ celestial_parent = [e \in Entities |->
                CASE e = "alpha" -> NoEntity
                  [] e = "beta"  -> "alpha"
                  [] e = "gamma" -> "beta"
                  [] e = "rove"  -> "beta"
                  [] e = "base"  -> "beta"
                  [] e = "sat"   -> sat_parent]
          /\ disabled = IF sat_unloaded THEN {"rove", "sat"} ELSE {"rove"}
          /\ mass = [e \in Entities |->
                CASE e = "alpha" -> 3
                  [] e = "beta"  -> 2
                  [] e = "base"  -> base_mass
                  [] OTHER       -> 1]
          /\ root_pos = [e \in Entities |->
                CASE e = "beta" -> beta_pos
                  [] e = "base" -> VAdd(beta_pos, base_pos)
                  [] e = "sat"  -> <<0, 4>>
                  [] e = "rove" -> VAdd(beta_pos, <<-1, 0>>)
                  [] OTHER      -> ZERO]
          /\ external_force = [e \in Entities |->
                IF e \in stale THEN StaleForce ELSE ZeroForce]
          /\ disturbed = stale
    /\ plugin = "physics"
    /\ root_vel = [e \in Entities |-> ZERO]
    /\ rail_mode = [e \in Entities |->
          IF e = "rove" THEN RailSurface(<<-1, 0>>, 1) ELSE RailNone]
    /\ rigid_tf = [e \in Entities |-> Absent]
    /\ transform = [e \in Entities |-> ZERO]
    /\ velocity = [e \in Entities |-> ZERO]
    /\ active_vessel = [present |-> TRUE, entity |-> "base",
                        prev_tick_position |-> root_pos["base"],
                        prev_tick_velocity |-> ZERO,
                        prev_tick_parent |-> "beta"]
    /\ sim_camera = [attached |-> TRUE, entity |-> "base",
                     last_known_pos |-> ZERO, offset |-> ZERO, zoom |-> 1]
    /\ contact = {}
    /\ tick = 1
    /\ grp = 1
    /\ done = {}
    /\ ran = <<>>
    /\ origin_at_pre = Absent
    /\ built_vel = root_vel
    /\ panicked = FALSE
    /\ conv = ConvIdle
    /\ InitControls

NextGravity == apply_gravity \/ unapply_gravity_to_unloaded

SpecGravity == InitGravity /\ [][NextGravity]_vars

\* ------------------------------- level-of-detail vertex counts (collider.rs)

\* consts::terrain::LOD_VERTS
LOD_VERTS == 512

\* consts::terrain::LOD_DIVISIONS
LOD_DIVISIONS == 4

\* A u32 is kept as two 16-bit halves <<high, low>>.
Half == 65536

U32(n) == <<n \div Half, n % Half>>

\* u32::is_power_of_two
RECURSIVE is_power_of_two(_)
is_power_of_two(n) ==
    IF n = 1 THEN TRUE
    ELSE IF n = 0 \/ n % 2 = 1 THEN FALSE
    ELSE is_power_of_two(n \div 2)

\* u32::ilog2
RECURSIVE ilog2(_)
ilog2(n) == IF n <= 1 THEN 0 ELSE 1 + ilog2(n \div 2)

\* One doubling of a u32; the bit shifted out of the top is lost.
Double32(x) == <<(2 * x[1] + (2 * x[2]) \div Half) % Half, (2 * x[2]) % Half>>

RECURSIVE Doubled32(_, _)
Doubled32(x, n) == IF n = 0 THEN x ELSE Doubled32(Double32(x), n - 1)

\* u32 << amount: an amount of 32 or more is an overflow, which panics in a
\* build with overflow checks and uses the amount modulo 32 in one without;
\* bits shifted out are lost without notice.
Shl32(x, amount) ==
    IF amount >= 32 THEN {Panicked, Doubled32(x, amount % 32)}
    ELSE {Doubled32(x, amount)}

\* u8 << amount, for an amount below 8: the bits shifted out are lost.
Shl8(x, amount) == (x * (2 ^ amount)) % 256

\* u32 * small factor: the product in unbounded precision, as <<high, low>>
\* whose high part may exceed 16 bits.
Times(x, d) == <<x[1] * d + (x[2] * d) \div Half, (x[2] * d) % Half>>

\* The value fits in 32 bits.
FitsU32(x) == x[1] < Half

\* u32 multiplication: an overflow panics in a build with overflow checks and
\* wraps in one without.
Mul32(x, d) ==
    IF x = Panicked THEN {Panicked}
    ELSE IF FitsU32(Times(x, d)) THEN {Times(x, d)}
    ELSE {Panicked, <<Times(x, d)[1] % Half, Times(x, d)[2]>>}

\* LOD_VERTS * LOD_DIVISIONS.pow(level), multiplying level times.
RECURSIVE MulPow32(_, _, _)
MulPow32(xs, d, level) ==
    IF level = 0 THEN xs
    ELSE MulPow32(UNION {Mul32(x, d) : x \in xs}, d, level - 1)

\* verts_at_lod_level shifting by the level itself.
verts_at_lod_level_ShiftByLevel(level) == Shl32(U32(LOD_VERTS), level)

\* verts_at_lod_level: the values the call can yield.
verts_at_lod_level(level) ==
    IF is_power_of_two(LOD_DIVISIONS)
    THEN LET ILOG2 == ilog2(LOD_DIVISIONS)
         IN  IF is_power_of_two(ILOG2)
             THEN LET LOGLOG == ilog2(ILOG2)
                  IN  Shl32(U32(LOD_VERTS), Shl8(level, LOGLOG))
             ELSE Shl32(U32(LOD_VERTS), level * ILOG2)
    ELSE MulPow32({U32(LOD_VERTS)}, LOD_DIVISIONS, level)

\* The levels of type u8.
U8 == 0 .. 255

InitVerts ==
    /\ ParkedWorld
    /\ InitControls
    /\ \E level \in U8 : conv = [stage |-> "level", level |-> level]

\* A call of verts_at_lod_level.
verts_at_lod_level_call ==
    /\ conv.stage = "level"
    /\ \E verts \in verts_at_lod_level(conv.level) :
          conv' = [stage |-> "verts", level |-> conv.level, verts |-> verts]
    /\ UNCHANGED <<world, controls>>

NextVerts == verts_at_lod_level_call

SpecVerts == InitVerts /\ [][NextVerts]_vars

\* --------------------------- partial wrapping copy (components/terrain.rs)

\* The length M of the source array.
M == 6

\* The source array of the test: entry idx holds idx.
SrcArray == [idx \in 1 .. M |-> idx - 1]

\* The outcome of building a slice or a vector: its items, or a panic.
Items(items) == [panicked |-> FALSE, items |-> items]

OutOfRange == [panicked |-> TRUE, items |-> <<>>]

\* &src[from..to]: the elements at the indices from .. to - 1, counted from
\* zero; a range that is reversed or ends beyond the array panics.
Slice(src, from, to) ==
    IF from <= to /\ to <= Len(src) THEN Items(SubSeq(src, from + 1, to))
    ELSE OutOfRange

\* Vec::extend_from_slice
extend_from_slice(dest, slice) ==
    IF dest.panicked \/ slice.panicked THEN OutOfRange
    ELSE Items(dest.items \o slice.items)

\* partial_wrapping_copy copying up to the end of the array only.
partial_wrapping_copy_NoWrap(src, dest, start, amount) ==
    IF start + amount >= Len(src)
    THEN extend_from_slice(Items(dest), Slice(src, start, Len(src)))
    ELSE extend_from_slice(Items(dest), Slice(src, start, start + amount))

\* partial_wrapping_copy: dest after the call.
partial_wrapping_copy(src, dest, start, amount) ==
    IF start + amount >= Len(src)
    THEN extend_from_slice(
             extend_from_slice(Items(dest), Slice(src, start, Len(src))),
             Slice(src, 0, start + amount - Len(src)))
    ELSE extend_from_slice(Items(dest), Slice(src, start, start + amount))

\* What dest may hold before the call.
DestBefore == {<<>>, <<40>>, <<41, 40, 41>>}

InitCopy ==
    /\ ParkedWorld
    /\ InitControls
    /\ \E dest \in DestBefore, start \in 0 .. M - 1, amount \in 0 .. M - 1 :
          conv = [stage |-> "copy", dest |-> dest, start |-> start, amount |-> amount]

\* tests::test_partial_wrapping_copy: one call.
test_partial_wrapping_copy ==
    /\ conv.stage = "copy"
    /\ conv' = [stage |-> "copied", dest |-> conv.dest, start |-> conv.start,
                amount |-> conv.amount,
                fast_buf |-> partial_wrapping_copy(SrcArray, conv.dest,
                                                   conv.start, conv.amount)]
    /\ UNCHANGED <<world, controls>>

NextCopy == test_partial_wrapping_copy

SpecCopy == InitCopy /\ [][NextCopy]_vars

\* -------------------------------------- index ranges (terrain/collider.rs)

\* The largest index a range of the checks may name.
MaxIndex == 4

\* The largest number of ranges in a list of the checks.
MaxRanges == 3

\* Range<u32>: start..end as <<start, end>>, with start <= end.
Ranges == {r \in (0 .. MaxIndex) \X (0 .. MaxIndex) : r[1] <= r[2]}

\* The lists of at most MaxRanges ranges.
RangeLists == UNION {[1 .. n -> Ranges] : n \in 0 .. MaxRanges}

\* sort_unstable_by_key(|range| range.start): the orders the sort may leave,
\* ranges of equal start being in any order.
SortedByStart(ranges) ==
    LET n == Len(ranges)
        perms == {p \in [1 .. n -> 1 .. n] : \A i, j \in 1 .. n : i # j => p[i] # p[j]}
    IN  {[i \in 1 .. n |-> ranges[p[i]]] : p \in
            {q \in perms : \A i \in 1 .. n - 1 : ranges[q[i]][1] <= ranges[q[i + 1]][1]}}

\* The loop of merge_ranges joining a range only when it starts before the
\* end of the current one.
RECURSIVE merge_loop_Strict(_, _, _)
merge_loop_Strict(merged, current_range, ranges_iter) ==
    IF ranges_iter = <<>> THEN Append(merged, current_range)
    ELSE LET range == Head(ranges_iter)
         IN  IF range[1] < current_range[2]
             THEN merge_loop_Strict(merged,
                             <<current_range[1], Max(current_range[2], range[2])>>,
                             Tail(ranges_iter))
             ELSE merge_loop_Strict(Append(merged, current_range), range,
                                    Tail(ranges_iter))

\* The loop of merge_ranges over the sorted ranges after the first.
RECURSIVE merge_loop(_, _, _)
merge_loop(merged, current_range, ranges_iter) ==
    IF ranges_iter = <<>> THEN Append(merged, current_range)
    ELSE LET range == Head(ranges_iter)
         IN  IF range[1] <= current_range[2]
             THEN merge_loop(merged,
                             <<current_range[1], Max(current_range[2], range[2])>>,
                             Tail(ranges_iter))
             ELSE merge_loop(Append(merged, current_range), range, Tail(ranges_iter))

\* merge_ranges on the ranges as the sort left them.
merge_ranges(sorted) ==
    IF sorted = <<>> THEN <<>>
    ELSE merge_loop(<<>>, Head(sorted), Tail(sorted))

InitMerge ==
    /\ ParkedWorld
    /\ InitControls
    /\ \E ranges \in RangeLists : conv = [stage |-> "ranges", ranges |-> ranges]

\* tests::test_merge_ranges: one call.
test_merge_ranges ==
    /\ conv.stage = "ranges"
    /\ \E sorted \in SortedByStart(conv.ranges) :
          conv' = [stage |-> "merged", ranges |-> conv.ranges,
                   output |-> merge_ranges(sorted)]
    /\ UNCHANGED <<world, controls>>

NextMerge == test_merge_ranges

SpecMerge == InitMerge /\ [][NextMerge]_vars

\* The largest index a range handed to wrap_ranges may name.
MaxWrapIndex == 6

\* The largest number of vertices of the checks of wrap_ranges.
MaxVerts == 3

\* Range<u64>: the ranges handed to wrap_ranges, with start <= end.
WideRanges == {r \in (0 .. MaxWrapIndex) \X (0 .. MaxWrapIndex) : r[1] <= r[2]}

\* u64 as u32: the value modulo 2^32.
AsU32(x) == ((x \div Half) % Half) * Half + (x % Half)

\* The loop of wrap_ranges: the ranges pushed for the ranges not yet visited.
RECURSIVE wrap_ranges_loop(_, _, _)
wrap_ranges_loop(wrapped_ranges, ranges, verts) ==
    IF ranges = <<>> THEN wrapped_ranges
    ELSE LET start         == Head(ranges)[1]
             end_exclusive == Head(ranges)[2]
             new_start     == start % verts
             diff          == start - new_start
             new_end_excl  == end_exclusive - diff
         IN  IF new_end_excl > verts
             THEN wrap_ranges_loop(
                      wrapped_ranges \o << <<AsU32(new_start), verts>>,
                                           <<0, AsU32(new_end_excl - verts)>> >>,
                      Tail(ranges), verts)
             ELSE wrap_ranges_loop(
                      Append(wrapped_ranges, <<AsU32(new_start), AsU32(new_end_excl)>>),
                      Tail(ranges), verts)

wrap_ranges(ranges, verts) == wrap_ranges_loop(<<>>, ranges, verts)

InitWrap ==
    /\ ParkedWorld
    /\ InitControls
    /\ \E n \in 1 .. 2, verts \in 1 .. MaxVerts :
          \E ranges \in [1 .. n -> WideRanges] :
             conv = [stage |-> "wide", ranges |-> ranges, verts |-> verts]

\* tests::test_wrap_ranges: one call.
test_wrap_ranges ==
    /\ conv.stage = "wide"
    /\ conv' = [stage |-> "wrapped", ranges |-> conv.ranges, verts |-> conv.verts,
                output |-> wrap_ranges(conv.ranges, conv.verts)]
    /\ UNCHANGED <<world, controls>>

NextWrap == test_wrap_ranges

SpecWrap == InitWrap /\ [][NextWrap]_vars

\* ------------------------------------------------------------------
\* level-of-detail vectors (components/terrain.rs, terrain/render.rs)

\* The largest ending level of the checks of update_lods.
MaxEndingLevel == 2

\* The largest number of update_lods calls on one LodVectors value.
MaxCalls == 3

\* The largest focus angle, in units of a turn / (LOD_VERTS * FocusDen).
MaxFocus == 5

\* The focus angles are multiples of 1 / FocusDen of a level-1 vertex step.
FocusDen == LOD_DIVISIONS ^ (MaxEndingLevel - 1)

\* f64 values: a finite value, or NaN.
F64(value) == [nan |-> FALSE, value |-> value]

NaN == [nan |-> TRUE, value |-> 0]

Foci == {F64(n) : n \in 0 .. MaxFocus}

\* f64::round of num / den (den > 0): half-way cases away from zero.
round(num, den) ==
    IF num >= 0 THEN (2 * num + den) \div (2 * den)
    ELSE 0 - ((2 * (0 - num) + den) \div (2 * den))

\* lod_level_start, as the rounded vertex count its coefficient
\* LOD_DIVISIONS^(1 - level) multiplies: two starts of one level are equal
\* exactly when these are. A NaN focus gives a NaN start.
lod_level_start(lod_level, focus) ==
    IF focus.nan THEN NaN
    ELSE F64(round(LOD_DIVISIONS ^ (lod_level - 1) * focus.value
                      - (LOD_VERTS \div (2 * LOD_DIVISIONS)) * FocusDen,
                   FocusDen))

\* f64 inequality: NaN differs from everything, NaN included.
f64_ne(a, b) == a.nan \/ b.nan \/ a.value # b.value

\* TerrainGen::gen_lod: the array of a level is fixed by the level and its
\* start, and the start of level 0 is 0.
gen_lod(lod_level, focus) ==
    [level |-> lod_level,
     start |-> IF lod_level = 0 THEN F64(0) ELSE lod_level_start(lod_level, focus)]

\* LodVectors::new
LodVectors_new == [panicked |-> FALSE, items |-> <<gen_lod(0, F64(0))>>]

\* LodVectors::update_lod on the list self
update_lod(self, level, prev_focus, new_focus) ==
    LET level_not_loaded   == Len(self.items) >= level
        lod_needs_updating == f64_ne(lod_level_start(level, prev_focus),
                                     lod_level_start(level, new_focus))
        vecs               == gen_lod(level, new_focus)
    IN  IF self.panicked THEN self
        ELSE IF level_not_loaded \/ lod_needs_updating
        THEN IF level_not_loaded
             THEN [self EXCEPT !.items = Append(@, vecs)]
             ELSE IF level + 1 \in DOMAIN self.items
                  THEN [self EXCEPT !.items[level + 1] = vecs]
                  ELSE [self EXCEPT !.panicked = TRUE]
        ELSE self

\* LodVectors::update_lods: update_lod for the levels from level to
\* ending_level, in this order.
RECURSIVE update_lods_from(_, _, _, _, _)
update_lods_from(self, level, ending_level, prev_focus, new_focus) ==
    IF level > ending_level THEN self
    ELSE update_lods_from(update_lod(self, level, prev_focus, new_focus),
                          level + 1, ending_level, prev_focus, new_focus)

update_lods(self, ending_level, prev_focus, new_focus) ==
    update_lods_from(self, 1, ending_level, prev_focus, new_focus)

InitLods ==
    /\ ParkedWorld
    /\ InitControls
    /\ \E ending_level \in 1 .. MaxEndingLevel :
          conv = [stage |-> "lods", ending_level |-> ending_level, calls |-> 0,
                  built |-> LodVectors_new, lods |-> LodVectors_new]

\* One call of update_lods by the owner of the LodVectors value.
update_lods_call ==
    /\ conv.stage = "lods"
    /\ conv.calls < MaxCalls
    /\ \E prev_focus \in Foci \cup {NaN}, new_focus \in Foci :
          conv' = [conv EXCEPT !.calls = @ + 1,
                               !.lods = update_lods(@, conv.ending_level,
                                                    prev_focus, new_focus)]
    /\ UNCHANGED <<world, controls>>

NextLods == update_lods_call

SpecLods == InitLods /\ [][NextLods]_vars

\* ------------------------------------------------------------------
\* the simulation camera's root position (components/camera.rs,
\* components/mod.rs)

\* The largest number of get_root_position calls on one camera.
MaxCameraCalls == 3

\* SimCameraOffset::Attached
Attached(entity, last_known_pos, offset) ==
    [attached |-> TRUE, entity |-> entity, last_known_pos |-> last_known_pos,
     offset |-> offset]

\* SimCameraOffset::Detached: the fixed position is kept in last_known_pos.
Detached(pos) ==
    [attached |-> FALSE, entity |-> NoEntity, last_known_pos |-> pos,
     offset |-> ZERO]

\* Query<&RootSpacePosition>::get(entity): the query knows one entity.
QueryGet(query, entity) ==
    IF query.alive /\ entity = query.entity
    THEN [ok |-> TRUE, p |-> query.pos]
    ELSE [ok |-> FALSE, p |-> ZERO]

\* components/camera.rs, SimCameraOffsetReference::Mutable:
\* get_root_position_with_attached_pos. The camera after the call and the
\* position returned.
SimCameraOffsetReference_get_root_position_with_attached_pos(self, attached_obj_pos) ==
    IF self.attached
    THEN [cam |-> [self EXCEPT !.last_known_pos = VAdd(attached_obj_pos, self.offset)],
          position |-> VAdd(attached_obj_pos, self.offset)]
    ELSE [cam |-> self, position |-> self.last_known_pos]

\* components/camera.rs, SimCameraOffsetReference::Mutable: get_root_position
SimCameraOffsetReference_get_root_position(self, query) ==
    IF ~self.attached THEN [cam |-> self, position |-> self.last_known_pos]
    ELSE LET found == QueryGet(query, self.entity)
             attached_obj_pos == IF found.ok THEN found.p ELSE self.last_known_pos
         IN  SimCameraOffsetReference_get_root_position_with_attached_pos(
                 self, attached_obj_pos)

\* components/mod.rs, SimCameraOffset::get_root_position
SimCameraOffset_get_root_position(self, query) ==
    IF ~self.attached THEN [cam |-> self, position |-> self.last_known_pos]
    ELSE LET found == QueryGet(query, self.entity)
             attached_obj_pos == IF found.ok THEN found.p ELSE self.last_known_pos
         IN  [cam |-> [self EXCEPT !.last_known_pos = attached_obj_pos],
              position |-> get_root_position_with_attached_pos(self, attached_obj_pos)]

\* The positions of the attached entity and of a detached camera.
CameraPositions == {ZERO, <<3, 1>>}

\* The offsets of an attached camera.
CameraOffsets == {ZERO, <<1, 0>>, <<0, 2>>}

\* src/ holds two revisions of the camera component; the build has one.
CameraRevisions == {"components/camera.rs", "components/mod.rs"}

InitCamera ==
    /\ ParkedWorld
    /\ InitControls
    /\ \E revision \in CameraRevisions, pos \in CameraPositions :
       \E cam \in {Attached("base", pos, offset) : offset \in CameraOffsets}
                     \cup {Detached(p) : p \in CameraPositions} :
          conv = [stage |-> "camera", revision |-> revision, built |-> cam,
                  cam |-> cam,
                  query |-> [alive |-> TRUE, entity |-> "base", pos |-> pos],
                  calls |-> 0, called_alive |-> FALSE, alive_return |-> ZERO,
                  calls_gone |-> 0, returned |-> ZERO]

\* One call of get_root_position through a mutable reference.
get_root_position ==
    /\ conv.stage = "camera"
    /\ conv.calls < MaxCameraCalls
    /\ LET result == IF conv.revision = "components/camera.rs"
                     THEN SimCameraOffsetReference_get_root_position(conv.cam, conv.query)
                     ELSE SimCameraOffset_get_root_position(conv.cam, conv.query)
       IN  conv' = [conv EXCEPT
                       !.cam = result.cam,
                       !.calls = @ + 1,
                       !.returned = result.position,
                       !.called_alive = @ \/ conv.query.alive,
                       !.alive_return = IF conv.query.alive THEN result.position ELSE @,
                       !.calls_gone = IF conv.query.alive THEN @ ELSE @ + 1]
    /\ UNCHANGED <<world, controls>>

\* The attached entity moves.
move_entity ==
    /\ conv.stage = "camera"
    /\ conv.query.alive
    /\ \E pos \in CameraPositions \ {conv.query.pos} :
          conv' = [conv EXCEPT !.query.pos = pos]
    /\ UNCHANGED <<world, controls>>

\* The attached entity is despawned: it has no root position any more.
despawn_entity ==
    /\ conv.stage = "camera"
    /\ conv.query.alive
    /\ conv' = [conv EXCEPT !.query.alive = FALSE]
    /\ UNCHANGED <<world, controls>>

NextCamera == get_root_position \/ move_entity \/ despawn_entity

SpecCamera == InitCamera /\ [][NextCamera]_vars

\* ------------------------------------------------ the rail stage alone

\* Parent relations in which every entity has at most one parent: the tree
\* of the simulation; a relation in which gamma and rove are each other's
\* parent and the loaded vessel base hangs below them; and one in which
\* alpha and beta are each other's parent, so that no entity is parentless.
ParentRelations ==
    { [e \in Entities |->
         CASE e = "alpha" -> NoEntity
           [] e = "beta"  -> "alpha"
           [] e = "gamma" -> "beta"
           [] e = "rove"  -> "beta"
           [] e = "base"  -> "beta"
           [] e = "sat"   -> "alpha"],
      [e \in Entities |->
         CASE e = "alpha" -> NoEntity
           [] e = "beta"  -> "alpha"
           [] e = "gamma" -> "rove"
           [] e = "rove"  -> "gamma"
           [] e = "base"  -> "gamma"
           [] e = "sat"   -> "alpha"],
      [e \in Entities |->
         CASE e = "alpha" -> "beta"
           [] e = "beta"  -> "alpha"
           [] e = "gamma" -> "beta"
           [] e = "rove"  -> "beta"
           [] e = "base"  -> "beta"
           [] e = "sat"   -> "alpha"] }

\* Root position and root velocity given to the forest root alpha.
RootStateVectors == {ZERO_SV, <<<<5, 0>>, ZERO>>, <<<<0, -2>>, <<0, 1>>>>}

\* Worlds for the first set of systems of a tick of HcspPhysicsPlugin.
InitRail ==
    /\ \E par \in ParentRelations,
          alpha_sv \in RootStateVectors,
          beta_rail \in {RailOrbit(BetaOrbit), RailNone},
          gamma_rail \in {RailOrbit(GammaOrbit), RailSurface(<<0, 1>>, 1)},
          rove_rail \in {RailSurface(<<-1, 0>>, 1), RailNone},
          now \in 1 .. MaxTick :
          /\ celestial_parent = par
          /\ rail_mode = [e \in Entities |->
                CASE e = "beta"  -> beta_rail
                  [] e = "gamma" -> gamma_rail
                  [] e = "rove"  -> rove_rail
                  [] OTHER       -> RailNone]
          /\ root_pos = [e \in Entities |->
                CASE e = "alpha" -> alpha_sv[1]
                  [] e = "base"  -> <<3, 0>>
                  [] e = "sat"   -> <<0, 4>>
                  [] OTHER       -> ZERO]
          /\ root_vel = [e \in Entities |->
                CASE e = "alpha" -> alpha_sv[2]
                  [] e = "base"  -> <<1, 0>>
                  [] e = "sat"   -> <<1, 0>>
                  [] OTHER       -> ZERO]
          /\ tick = now
    /\ plugin = "physics"
    /\ disabled = {"rove"}
    /\ mass = [e \in Entities |->
          CASE e = "alpha" -> 3
            [] e = "beta"  -> 2
            [] OTHER       -> 1]
    /\ external_force = [e \in Entities |-> ZeroForce]
    /\ rigid_tf = [e \in Entities |-> Absent]
    /\ transform = [e \in Entities |-> ZERO]
    /\ velocity = [e \in Entities |-> ZERO]
    /\ active_vessel = [present |-> TRUE, entity |-> "base",
                        prev_tick_position |-> root_pos["base"],
                        prev_tick_velocity |-> root_vel["base"],
                        prev_tick_parent |-> celestial_parent["base"]]
    /\ sim_camera = [attached |-> TRUE, entity |-> "base",
                     last_known_pos |-> ZERO, offset |-> ZERO, zoom |-> 1]
    /\ contact = {}
    /\ grp = 1
    /\ done = {}
    /\ ran = <<>>
    /\ disturbed = {}
    /\ origin_at_pre = Absent
    /\ built_vel = root_vel
    /\ panicked = FALSE
    /\ conv = ConvIdle
    /\ InitControls

NextRail == apply_gravity \/ unapply_gravity_to_unloaded \/ write_rail_to_sv

SpecRail == InitRail /\ [][NextRail]_vars

\* ================================================================ claims

\* The step being taken runs the given system.
Step(system) == ran' = Append(ran, system)

\* The system has run in the current tick.
HasRun(system) == \E i \in DOMAIN ran : ran[i] = system

\* How often the system has run in the current tick.
TimesRun(system) == Cardinality({i \in DOMAIN ran : ran[i] = system})

\* All systems of the current tick have run.
TickDone == grp = Len(Schedule) + 1

\* The value is not changed by narrowing to single precision.
ExactInF32(a) == as_vec2(a) = a

\* ------------------------------------------------------------------- C1

\* The place of each stage in the order the claim states: gravity,
\* write_sv_to_rail, rail propagation, snapshot update, pre-switch, physics
\* step, post-switch.  apply_root_velocity is not part of the stated order.
ClaimedRank(system) ==
    CASE system \in {"apply_gravity", "unapply_gravity_to_unloaded"} -> 1
      [] system = "write_sv_to_rail" -> 2
      [] system = "write_rail_to_sv" -> 3
      [] system = "update_active_vessel_resource" -> 4
      [] system \in {"sync_root_to_rigid", "pre_rapier_frame_switch"} -> 5
      [] system = "step_simulation" -> 6
      [] system \in {"sync_rigid_vel_to_root", "sync_rigid_pos_to_root",
                     "write_rigid_vel_to_root", "write_rigid_pos_to_root",
                     "post_rapier_frame_switch"} -> 7
      [] OTHER -> 0

PhysicsRank(system) ==
    CASE system \in {"apply_gravity", "unapply_gravity_to_unloaded",
                     "write_rail_to_sv"} -> 1
      [] system = "apply_root_velocity" -> 2
      [] system = "update_active_vessel_resource" -> 3
      [] system = "pre_rapier_frame_switch" -> 4
      [] system = "step_simulation" -> 5
      [] system \in {"write_rigid_vel_to_root", "write_rigid_pos_to_root"} -> 6
      [] system \in {"post_rapier_frame_switch", "write_sv_to_rail"} -> 7
      [] OTHER -> 0

C2_StatedRoundTrip ==
    conv.stage = "back" =>
       /\ conv.back_pos = conv.p
       /\ conv.back_vel = conv.v
       /\ conv.back_full = conv.v

\* C2 (amended): the round trip returns the root position when the
\* difference between position and origin is exactly representable in
\* single precision, and the root velocity (through the linear velocity and
\* through the full velocity) when the difference between velocity and
\* origin velocity is.
C2_RoundTrip ==
    conv.stage = "back" =>
       /\ ExactInF32(VSub(conv.p, conv.o_pos)) => conv.back_pos = conv.p
       /\ ExactInF32(VSub(conv.v, conv.o_vel))
             => conv.back_vel = conv.v /\ conv.back_full = conv.v

\* C2 witness: a round trip of a large position and a velocity, with
\* non-zero origins, that returns both.
C2_Witness ==
    /\ conv.stage = "back"
    /\ conv.p[1] = 16777216
    /\ conv.o_pos = <<9, 9>>
    /\ conv.o_vel = <<5, 9>>
    /\ conv.rigid_pos = <<16777207, -12>>
    /\ conv.back_pos = conv.p
    /\ conv.back_full = <<-4, -3>>

\* ------------------------------------------------------------------- C3

\* C3 as stated: sync_root_to_rigid writes rigid position p - o for every
\* entity, o being the snapshot position, and when that rigid position is
\* still the one written, sync_rigid_pos_to_root leaves the root position p.
C3_StatedRecentering ==
    [][/\ (Step("sync_root_to_rigid") /\ active_vessel.present)
             => \A e \in Entities :
                   rigid_tf'[e] = VSub(root_pos[e], Snapshot.position)
       /\ (Step("sync_rigid_pos_to_root") /\ origin_at_pre # Absent)
             => \A e \in Entities :
                   rigid_tf[e] = to_rigid_space_position(root_pos[e],
                                                         origin_at_pre.position)
                      => root_pos'[e] = root_pos[e]]_vars

\* C3 (amended): sync_root_to_rigid writes, for every entity, the
\* single-precision value nearest to p - o, which is p - o when p - o is
\* exactly representable in single precision; for such an entity, when the
\* rigid position is still the one written, sync_rigid_pos_to_root leaves
\* the root position p.  The snapshot is the one the pre-switch used.
C3_Recentering ==
    [][/\ (Step("sync_root_to_rigid") /\ active_vessel.present)
             => \A e \in Entities :
                   /\ rigid_tf'[e] = as_vec2(VSub(root_pos[e], Snapshot.position))
                   /\ ExactInF32(VSub(root_pos[e], Snapshot.position))
                         => rigid_tf'[e] = VSub(root_pos[e], Snapshot.position)
       /\ (Step("sync_rigid_pos_to_root") /\ origin_at_pre # Absent)
             => /\ Snapshot = origin_at_pre
                /\ \A e \in Entities :
                      (/\ ExactInF32(VSub(root_pos[e], origin_at_pre.position))
                       /\ rigid_tf[e] = VSub(root_pos[e], origin_at_pre.position))
                         => root_pos'[e] = root_pos[e]]_vars

\* C3 witness: sync_rigid_pos_to_root has run with a non-zero origin and an
\* entity other than the active vessel, child of the snapshot parent, has a
\* non-zero rigid position p - o and its root position p.
C3_Witness ==
    /\ plugin = "frame_sync"
    /\ HasRun("sync_rigid_pos_to_root")
    /\ origin_at_pre # Absent
    /\ origin_at_pre.position # ZERO
    /\ \E e \in Entities \ {active_vessel.entity} :
          /\ celestial_parent[e] = origin_at_pre.parent
          /\ rigid_tf[e] # Absent
          /\ rigid_tf[e] # ZERO
          /\ rigid_tf[e] = VSub(root_pos[e], origin_at_pre.position)

\* ------------------------------------------------------------------- C4

\* The systems that convert from rigid space back to root space.
PostSwitch == {"sync_rigid_vel_to_root", "sync_rigid_pos_to_root",
               "write_rigid_vel_to_root", "write_rigid_pos_to_root"}

\* The systems that convert from root space to rigid space.
PreSwitch == {"sync_root_to_rigid", "pre_rapier_frame_switch"}

Classified(e) ==
    /\ FilterLoadedVessels(e)
    /\ celestial_parent[e] # NoEntity
    /\ IsCelestialParent(celestial_parent[e])

\* C5: write_sv_to_rail gives every loaded vessel with a celestial parent the
\* rail mode Surface{angle of the relative position, length of the relative
\* position} when the vessel is in contact with its parent, and otherwise
\* Orbit fitted from (relative position, relative velocity, G x parent mass,
\* elapsed time); evaluated at the elapsed time the new rail mode gives the
\* relative position back (and, for an orbit, the relative velocity); once
\* such a vessel has a rail mode other than None it keeps one.
C5_Classification ==
    [][/\ Step("write_sv_to_rail")
             => \A e \in Entities : Classified(e) =>
                   LET parent  == celestial_parent[e]
                       rel_pos == VSub(root_pos[e], root_pos[parent])
                       rel_vel == VSub(root_vel[e], root_vel[parent])
                       sv      == convert_rail_to_relative_sv(rail_mode'[e], elapsed)
                   IN  /\ e \in contact
                             => /\ rail_mode'[e] = RailSurface(to_angle(rel_pos),
                                                               length(rel_pos))
                                /\ sv.velocity = ZERO
                       /\ e \notin contact
                             => /\ rail_mode'[e] = RailOrbit(
                                       to_cached_orbit(rel_pos, rel_vel,
                                                       GTimes(mass[parent]), elapsed))
                                /\ sv.velocity = rel_vel
                       /\ sv.position = rel_pos
                       /\ rail_mode'[e].kind # "None"
       /\ \A e \in Entities :
             (Classified(e) /\ rail_mode[e].kind # "None")
                => rail_mode'[e].kind # "None"]_vars

\* C5 witness: write_sv_to_rail has just classified one vessel in contact as
\* Surface and one vessel without contact, whose parent moves, as Orbit.
C5_Witness ==
    /\ ran # <<>>
    /\ ran[Len(ran)] = "write_sv_to_rail"
    /\ "sat" \in contact
    /\ rail_mode["sat"] = RailSurface(to_angle(root_pos["sat"]), length(root_pos["sat"]))
    /\ root_pos["sat"] # ZERO
    /\ "base" \notin contact
    /\ rail_mode["base"].kind = "Orbit"
    /\ rail_mode["base"].orbit.epoch = elapsed
    /\ root_vel[celestial_parent["base"]] # ZERO
    /\ rail_mode["base"].orbit.velocity
          = VSub(root_vel["base"], root_vel[celestial_parent["base"]])

\* ------------------------------------------------------------------- C6

\* C6 as stated: the active vessel's rail mode is None in every state.
C6_StatedActiveNeverOnRail ==
    active_vessel.present => rail_mode[active_vessel.entity].kind = "None"

\* C6 (amended): write_sv_to_rail does not consult ActiveVessel.  Under
\* HcspPhysicsPlugin the active vessel (loaded, with a celestial parent) has
\* rail mode None only until write_sv_to_rail first runs; once it has run in
\* a tick the active vessel's rail mode is Surface if the vessel is in
\* contact with its parent and otherwise an Orbit fitted at the elapsed time.
C6_ActiveClassified ==
    (plugin = "physics" /\ active_vessel.present /\ Classified(active_vessel.entity)) =>
       LET a == active_vessel.entity
       IN  /\ (tick = 1 /\ ~HasRun("write_sv_to_rail")) => rail_mode[a].kind = "None"
           /\ (tick > 1 \/ HasRun("write_sv_to_rail")) => rail_mode[a].kind # "None"
           /\ HasRun("write_sv_to_rail")
                 => IF a \in contact
                    THEN rail_mode[a].kind = "Surface"
                    ELSE /\ rail_mode[a].kind = "Orbit"
                         /\ rail_mode[a].orbit.epoch = elapsed

\* C6 witness: the active vessel, whose velocity the physics step has
\* changed, has been put on an orbit rail fitted in the second tick.
C6_Witness ==
    /\ plugin = "physics"
    /\ tick = 2
    /\ HasRun("write_sv_to_rail")
    /\ active_vessel.entity = "base"
    /\ "base" \notin contact
    /\ rail_mode["base"].kind = "Orbit"
    /\ rail_mode["base"].orbit.epoch = 2
    /\ "base" \in disturbed

\* ------------------------------------------------------------------- C7

\* Rail propagation evaluates the node: it is a celestial body or an unloaded
\* vessel with a rail mode other than None, and so are all its ancestors
\* below the forest root.
RECURSIVE RailReached(_)
RailReached(n) ==
    /\ n \in Entities
    /\ OnRailsQuery(n)
    /\ rail_mode[n].kind # "None"
    /\ \/ celestial_parent[celestial_parent[n]] = NoEntity
       \/ RailReached(celestial_parent[n])

\* The entity is a forest root.
IsRoot(n) == n \in Entities /\ celestial_parent[n] = NoEntity

\* C7: write_rail_to_sv gives every celestial body or unloaded vessel that
\* it reaches root position = parent position + evaluate(RailMode,
\* elapsed).position and root velocity = parent velocity + evaluate(RailMode,
\* elapsed).velocity, the parent values being those written for the parent in
\* the same run (zero for the children of a forest root); a celestial body
\* or unloaded vessel it does not reach keeps its state vectors.
C7_RailPropagation ==
    [][Step("write_rail_to_sv")
          => \A n \in Entities :
                IF RailReached(n)
                THEN LET parent == celestial_parent[n]
                         rel    == convert_rail_to_relative_sv(rail_mode[n], elapsed)
                         ppos   == IF IsRoot(parent) THEN ZERO ELSE root_pos'[parent]
                         pvel   == IF IsRoot(parent) THEN ZERO ELSE root_vel'[parent]
                     IN  /\ root_pos'[n] = VAdd(ppos, rel.position)
                         /\ root_vel'[n] = VAdd(pvel, rel.velocity)
                ELSE FilterUnloadedVesselOrCelestialBody(n)
                        => root_pos'[n] = root_pos[n] /\ root_vel'[n] = root_vel[n]]_vars

\* C7 witness: in the second tick rail propagation has just placed gamma and
\* the unloaded vessel rove relative to the position and velocity it wrote
\* for their parent beta, which are not zero.
C7_Witness ==
    /\ tick = 2
    /\ ran # <<>>
    /\ ran[Len(ran)] = "write_rail_to_sv"
    /\ rail_mode["beta"].kind = "Orbit"
    /\ rail_mode["gamma"].kind = "Orbit"
    /\ rail_mode["rove"].kind = "Surface"
    /\ root_pos["beta"] = get_state_vectors_at_time(BetaOrbit, 2).position
    /\ root_pos["beta"] # ZERO
    /\ root_vel["beta"] # ZERO
    /\ root_pos["gamma"] = VAdd(root_pos["beta"],
                                get_state_vectors_at_time(GammaOrbit, 2).position)
    /\ root_vel["gamma"] = VAdd(root_vel["beta"],
                                get_state_vectors_at_time(GammaOrbit, 2).velocity)
    /\ root_pos["rove"] = VAdd(root_pos["beta"], <<-1, 0>>)
    /\ root_vel["rove"] = root_vel["beta"]

\* ------------------------------------------------------------------- C8

\* Rail propagation visits the loaded vessel: the vessel has a parent and
\* all its ancestors below the forest root are evaluated.
ShiftReached(v) ==
    /\ FilterLoadedVessels(v)
    /\ celestial_parent[v] # NoEntity
    /\ IsRoot(celestial_parent[v]) \/ RailReached(celestial_parent[v])

\* The sum, over the ancestors of the vessel below the forest root, of the
\* change of the ancestor's relative rail velocity from elapsed - dt to
\* elapsed.
RailShift(v) ==
    VSub(RailVelocity(celestial_parent, rail_mode, celestial_parent[v], elapsed),
         RailVelocity(celestial_parent, rail_mode, celestial_parent[v], elapsed - delta))

\* C8: one run of write_rail_to_sv adds to the root velocity of a loaded
\* vessel whose ancestors below the forest root are all on rails the sum of
\* the ancestors' relative velocity changes over the tick, and leaves its
\* root position; the system runs at most once in a tick, and exactly once
\* in every tick of HcspPhysicsPlugin.
C8_AccumulatedShift ==
    [][/\ Step("write_rail_to_sv")
             => /\ ~HasRun("write_rail_to_sv")
                /\ \A v \in Entities : ShiftReached(v) =>
                      /\ root_vel'[v] = VAdd(root_vel[v], RailShift(v))
                      /\ root_pos'[v] = root_pos[v]
       /\ (tick' # tick /\ plugin = "physics") => TimesRun("write_rail_to_sv") = 1]_vars

\* C8 witness: in the first tick the vessel base, not the active vessel and
\* two rail levels below the forest root, has received the sum of the
\* velocity changes of gamma and beta, which differs from each of them.
C8_Witness ==
    /\ tick = 1
    /\ HasRun("write_rail_to_sv")
    /\ ~HasRun("pre_rapier_frame_switch")
    /\ active_vessel.entity = "sat"
    /\ celestial_parent["base"] = "gamma"
    /\ rail_mode["beta"].kind = "Orbit"
    /\ rail_mode["gamma"].kind = "Orbit"
    /\ LET beta_shift  == VSub(get_state_vectors_at_time(BetaOrbit, 1).velocity,
                               get_state_vectors_at_time(BetaOrbit, 0).velocity)
           gamma_shift == VSub(get_state_vectors_at_time(GammaOrbit, 1).velocity,
                               get_state_vectors_at_time(GammaOrbit, 0).velocity)
       IN  /\ beta_shift # ZERO
           /\ gamma_shift # ZERO
           /\ VAdd(beta_shift, gamma_shift) # ZERO
           /\ root_vel["base"] = VAdd(built_vel["base"], VAdd(beta_shift, gamma_shift))

\* ------------------------------------------------------------------- C9

\* C9 as stated: write_rail_to_sv leaves the active vessel's root velocity
\* and root position unchanged.
C9_StatedActiveUntouched ==
    [][(Step("write_rail_to_sv") /\ active_vessel.present)
          => /\ root_vel'[active_vessel.entity] = root_vel[active_vessel.entity]
             /\ root_pos'[active_vessel.entity] = root_pos[active_vessel.entity]]_vars

\* C9 (amended): write_rail_to_sv adds the accumulated velocity shift to
\* every loaded vessel it visits, the active vessel included, and to nothing
\* else; it changes no loaded vessel's root position, and a loaded vessel it
\* does not visit keeps its root velocity.  The active vessel's root
\* velocity is unchanged exactly when its accumulated shift is zero.
C9_ShiftIncludesActive ==
    [][Step("write_rail_to_sv")
          => /\ \A v \in Entities : FilterLoadedVessels(v) =>
                   /\ root_pos'[v] = root_pos[v]
                   /\ root_vel'[v] = IF ShiftReached(v)
                                     THEN VAdd(root_vel[v], RailShift(v))
                                     ELSE root_vel[v]
             /\ (active_vessel.present /\ ShiftReached(active_vessel.entity))
                   => (root_vel'[active_vessel.entity] = root_vel[active_vessel.entity]
                          <=> RailShift(active_vessel.entity) = ZERO)]_vars

\* C9 witness: in the first tick the active vessel base, child of the
\* orbiting beta, has received beta's velocity change.
C9_Witness ==
    /\ tick = 1
    /\ HasRun("write_rail_to_sv")
    /\ ~HasRun("pre_rapier_frame_switch")
    /\ active_vessel.entity = "base"
    /\ celestial_parent["base"] = "beta"
    /\ rail_mode["beta"].kind = "Orbit"
    /\ root_vel["base"] # built_vel["base"]
    /\ root_vel["base"]
          = VAdd(built_vel["base"],
                 VSub(get_state_vectors_at_time(BetaOrbit, 1).velocity,
                      get_state_vectors_at_time(BetaOrbit, 0).velocity))
    /\ root_pos["base"] = <<3, 0>>

\* ------------------------------------------------------------------ C10

\* The vessel was built with the velocity its parent has on its rail at time
\* zero, and the parent and all the parent's ancestors below the forest root
\* are on rails.
BuiltWithParentVelocity(v) ==
    /\ RailReached(celestial_parent[v])
    /\ built_vel[v] = RailVelocity(celestial_parent, rail_mode, celestial_parent[v], 0)

ControlSwitchingStep == frame = "Update" /\ frame' = "PreUpdate"

\* C20: in every mode other than Main, a run of control_switching in a
\* frame in which Escape was just pressed leaves Main as the next mode,
\* whatever other keys were pressed, and the state transition of the next
\* frame makes Main the mode; without Escape the run leaves the next mode
\* as it found it.
C20_EscReturnsToMain ==
    [][/\ (ControlSwitchingStep /\ control_mode # "Main")
             => IF "Escape" \in keyboard
                THEN next_mode' = "Main"
                ELSE next_mode' = next_mode
       /\ (frame = "StateTransition" /\ frame' = "Update" /\ next_mode = "Main")
             => control_mode' = "Main" /\ next_mode' = Unchanged]_vars

\* C20 witness: in CameraControl, control_switching has just run in a frame
\* in which Escape was pressed together with the keys of two other modes,
\* and Main is pending.
C20_Witness ==
    /\ frame = "PreUpdate"
    /\ control_mode = "CameraControl"
    /\ {"Escape", "KeyM", "KeyV"} \subseteq keyboard
    /\ next_mode = "Main"

\* ------------------------------------------------------------------ C17

\* C17: rail propagation never evaluates RailMode::None: no run of
\* write_rail_to_sv panics, whatever the rail modes of the tree are.
C17_NoneNeverEvaluated == ~panicked

\* C17 witness: rail propagation has run in two ticks over a tree in which
\* the celestial body beta has rail mode None and an orbiting child, and the
\* unloaded vessel rove has rail mode None; the app has not panicked.
C17_Witness ==
    /\ tick = 2
    /\ HasRun("write_rail_to_sv")
    /\ rail_mode["beta"].kind = "None"
    /\ rail_mode["gamma"].kind = "Orbit"
    /\ rail_mode["rove"].kind = "None"
    /\ ~panicked

\* ------------------------------------------------------------------ C18

\* The entity d is the entity n or one of its descendants.
RECURSIVE Descends(_, _)
Descends(d, n) ==
    /\ d # NoEntity
    /\ d = n \/ Descends(celestial_parent[d], n)

\* C18: a run of write_rail_to_sv changes neither the root position nor the
\* root velocity of a celestial body or unloaded vessel whose rail mode is
\* None, nor those of any of its descendants.
C18_NoneStopsWalk ==
    [][Step("write_rail_to_sv")
          => \A n \in Entities :
                (OnRailsQuery(n) /\ rail_mode[n].kind = "None")
                   => \A d \in Entities :
                         Descends(d, n)
                            => /\ root_pos'[d] = root_pos[d]
                               /\ root_vel'[d] = root_vel[d]]_vars

\* C18 witness: rail propagation has just run in the first tick; beta has
\* rail mode None, and its orbiting child gamma and gamma's loaded child base
\* are where and as fast as they were built.
C18_Witness ==
    /\ tick = 1
    /\ ran # <<>>
    /\ ran[Len(ran)] = "write_rail_to_sv"
    /\ rail_mode["beta"].kind = "None"
    /\ rail_mode["gamma"].kind = "Orbit"
    /\ celestial_parent["base"] = "gamma"
    /\ root_pos["gamma"] = ZERO
    /\ root_vel["gamma"] = ZERO
    /\ root_pos["base"] = <<3, 0>>
    /\ root_vel["base"] = built_vel["base"]

\* ------------------------------------------------------------------ C19

\* C19: no step changes the rail mode of an unloaded vessel or of a
\* celestial body: neither write_rail_to_sv, which only reads it, nor
\* write_sv_to_rail, which writes the rail modes of loaded vessels only.
C19_RailModesKept ==
    [][\A e \in Entities :
          FilterUnloadedVesselOrCelestialBody(e) => rail_mode'[e] = rail_mode[e]]_vars

\* C19 witness: in the second tick both rail systems have run; beta, gamma
\* and the unloaded vessel rove have the rail modes they were built with,
\* while the loaded vessel base has been given one.
C19_Witness ==
    /\ tick = 2
    /\ HasRun("write_rail_to_sv")
    /\ HasRun("write_sv_to_rail")
    /\ rail_mode["beta"] = RailOrbit(BetaOrbit)
    /\ rail_mode["gamma"] = RailSurface(<<0, 1>>, 1)
    /\ rail_mode["rove"] = RailSurface(<<-1, 0>>, 1)
    /\ rail_mode["base"].kind # "None"

\* ------------------------------------------------------------------ C11

\* C11: when update_active_vessel_resource runs with the ActiveVessel
\* resource present and its entity matched by the query, the snapshot's
\* position, velocity and parent become the entity's root position, root
\* velocity and parent of that moment and the entity field stays; no other
\* step of the tick, nor the start of the next tick, changes the resource.
C11_SnapshotTaken ==
    [][IF Step("update_active_vessel_resource")
       THEN LET a == active_vessel.entity
            IN  (active_vessel.present /\ ActiveQuery(a))
                   => /\ Snapshot' = [position |-> root_pos[a],
                                      velocity |-> root_vel[a],
                                      parent   |-> celestial_parent[a]]
                      /\ active_vessel'.entity = a
                      /\ active_vessel'.present
       ELSE active_vessel' = active_vessel]_vars

\* C11 witness: the second tick is over, the snapshot was taken in it, and
\* the active vessel is no longer where the snapshot says.
C11_Witness ==
    /\ tick = 2
    /\ TickDone
    /\ HasRun("update_active_vessel_resource")
    /\ active_vessel.present
    /\ Snapshot = origin_at_pre
    /\ root_pos[active_vessel.entity] # Snapshot.position
    /\ Snapshot.position \notin {<<3, 0>>, <<0, 4>>, FarAway}

\* ------------------------------------------------------------------ C13

\* C13 as stated: with the ActiveVessel resource present, the post-switch
\* systems of FrameSyncPlugin overwrite the root velocity and the root
\* position of every entity that has rigid-space values, whatever its parent
\* body is, with the rigid value plus the snapshot origin.
C13_StatedEveryEntity ==
    [][/\ (Step("sync_rigid_vel_to_root") /\ active_vessel.present)
            => \A e \in Entities :
                  rigid_tf[e] # Absent
                     => root_vel'[e] = velocity_to_root_space_linear_velocity(
                                           velocity[e], Snapshot.velocity)
       /\ (Step("sync_rigid_pos_to_root") /\ active_vessel.present)
            => \A e \in Entities :
                  rigid_tf[e] # Absent
                     => root_pos'[e] = to_root_space_position(
                                           rigid_tf[e], Snapshot.position)]_vars

\* C13, the diverging case: the active vessel base has a parent other than
\* alpha; the loaded vessel sat, whose parent is alpha, has had its
\* rigid-space velocity changed by the physics step, and after
\* sync_rigid_vel_to_root its root velocity is still the one it was built
\* with and not the rigid velocity plus the snapshot velocity.
C13_SkippedEntity ==
    /\ plugin = "frame_sync"
    /\ tick = 1
    /\ HasRun("sync_rigid_vel_to_root")
    /\ active_vessel.entity = "base"
    /\ celestial_parent["sat"] # Snapshot.parent
    /\ "sat" \in disturbed
    /\ rigid_tf["sat"] # Absent
    /\ root_vel["sat"] = built_vel["sat"]
    /\ root_vel["sat"] # velocity_to_root_space_linear_velocity(
                             velocity["sat"], Snapshot.velocity)

\* ------------------------------------------------------------------ C14

\* The pre-physics stages of FrameSyncPlugin have just run: the last system
\* was the root-to-rigid conversion or the copy into the Transform.
PrePhysicsDone ==
    /\ plugin = "frame_sync"
    /\ ran # <<>>
    /\ ran[Len(ran)] \in {"sync_root_to_rigid", "pre_rapier_frame_switch"}

\* C14: after the pre-physics stages of a tick of FrameSyncPlugin, with the
\* ActiveVessel resource present and its entity matched by the query, the
\* active vessel's rigid-space position and linear velocity are zero, and
\* every entity's rigid-space position and velocity are the single-precision
\* values nearest to its root values minus the active vessel's, which are
\* the differences themselves when those are representable.
C14_RigidCentered ==
    (PrePhysicsDone /\ active_vessel.present /\ ActiveQuery(active_vessel.entity))
       => LET a == active_vessel.entity
          IN  /\ rigid_tf[a] = ZERO
              /\ velocity[a] = ZERO
              /\ \A e \in Entities :
                    LET d_pos == VSub(root_pos[e], root_pos[a])
                        d_vel == VSub(root_vel[e], root_vel[a])
                    IN  /\ rigid_tf[e] = as_vec2(d_pos)
                        /\ velocity[e] = as_vec2(d_vel)
                        /\ ExactInF32(d_pos) => rigid_tf[e] = d_pos
                        /\ ExactInF32(d_vel) => velocity[e] = d_vel

\* C14 witness: in the second tick, after the conversion, the active vessel
\* has moved from where it was built and sits at the rigid-space origin,
\* while another loaded vessel is at its non-zero offset from it.
C14_Witness ==
    /\ PrePhysicsDone
    /\ tick = 2
    /\ active_vessel.entity = "base"
    /\ root_pos["base"] # <<3, 0>>
    /\ rigid_tf["base"] = ZERO
    /\ velocity["base"] = ZERO
    /\ rigid_tf["sat"] = VSub(root_pos["sat"], root_pos["base"])
    /\ rigid_tf["sat"] # ZERO
    /\ velocity["sat"] = VSub(root_vel["sat"], root_vel["base"])

\* C14 as stated: every entity's rigid-space values are exactly its root
\* values minus the active vessel's.
C14_StatedExactOffsets ==
    PrePhysicsDone
       => LET a == active_vessel.entity
          IN  /\ rigid_tf[a] = ZERO
              /\ velocity[a] = ZERO
              /\ \A e \in Entities :
                    /\ rigid_tf[e] = VSub(root_pos[e], root_pos[a])
                    /\ velocity[e] = VSub(root_vel[e], root_vel[a])

\* ------------------------------------------------------------------ C12

\* C12: when update_active_vessel_resource runs while the ActiveVessel
\* resource is absent, or its entity does not exist or has no parent body,
\* the resource and every entity's rigid-space transform and velocity stay
\* as they are.
C12_SkipWithoutMutation ==
    [][(/\ Step("update_active_vessel_resource")
        /\ \/ ~active_vessel.present
           \/ active_vessel.entity \notin Entities
           \/ celestial_parent[active_vessel.entity] = NoEntity)
          => /\ active_vessel' = active_vessel
             /\ rigid_tf' = rigid_tf
             /\ velocity' = velocity]_vars

\* C12 witness: in the second tick the update has just run with the
\* resource present and naming an entity that no longer exists; entities
\* have rigid-space values away from zero and the root alpha is not where
\* the stored snapshot is.
C12_Witness ==
    /\ tick = 2
    /\ ran = <<"update_active_vessel_resource">>
    /\ active_vessel.present
    /\ active_vessel.entity = NoEntity
    /\ Snapshot.position = <<3, 0>>
    /\ rigid_tf["sat"] # Absent
    /\ rigid_tf["sat"] # ZERO
    /\ velocity["sat"] # ZERO

\* ------------------------------------------------------------------ C15

\* The gravity system has run and the positions are those it read.
GravityApplied == HasRun("apply_gravity")

\* The loaded vessels that apply_gravity gives a force: their parent is a
\* celestial body.
Attracted(v) ==
    /\ v \in Vessel
    /\ v \notin disabled
    /\ celestial_parent[v] \in CelestialBody

\* C15: after the gravity system, a loaded vessel with a celestial parent,
\* at a separation other than zero, has the force G * m_vessel * m_parent /
\* max(r^2, floor) in the direction from the vessel to the parent, also when
\* r^2 is below the floor; at separation zero, or with a zero mass, it has
\* the zero force.  Whatever force it had before is replaced.
C15_GravityForce ==
    GravityApplied
       => \A v \in Entities :
             Attracted(v)
                => LET p    == celestial_parent[v]
                       to_p == VSub(root_pos[p], root_pos[v])
                       r2   == LengthSquared(to_p)
                       mm   == mass[v] * mass[p]
                   IN  IF to_p = ZERO \/ mm = 0
                       THEN external_force[v] = ZeroForce
                       ELSE /\ external_force[v].gmm = GTimes(mm)
                            /\ external_force[v].r_sq =
                                  <<(IF r2 < R_SQ_FLOOR THEN R_SQ_FLOOR ELSE r2), 1>>
                            /\ external_force[v].direction = Direction(to_p)

\* C15 witness: base, of non-zero mass, is closer to its parent than the
\* floor distance and carried a force of an earlier tick; after the gravity
\* system its force is G * m1 * m2 over the floor, towards the parent.
C15_Witness ==
    /\ GravityApplied
    /\ VSub(root_pos["base"], root_pos["beta"]) = <<0, -3>>
    /\ root_pos["beta"] # ZERO
    /\ mass["base"] = 2
    /\ "base" \in disturbed
    /\ external_force["base"] =
          [gmm |-> GTimes(4), r_sq |-> <<R_SQ_FLOOR, 1>>, direction |-> <<0, 1>>]

\* C15 as stated: the force has magnitude G * m_vessel * m_parent /
\* max(r^2, floor) towards the parent for every separation, zero included:
\* with non-zero masses the force is not the zero force.
C15_StatedEverySeparation ==
    GravityApplied
       => \A v \in Entities :
             (Attracted(v) /\ mass[v] * mass[celestial_parent[v]] # 0)
                => LET p  == celestial_parent[v]
                       r2 == LengthSquared(VSub(root_pos[p], root_pos[v]))
                   IN  /\ external_force[v].gmm = GTimes(mass[v] * mass[p])
                       /\ external_force[v].r_sq =
                             <<(IF r2 < R_SQ_FLOOR THEN R_SQ_FLOOR ELSE r2), 1>>
                       /\ external_force[v].direction # ZERO

\* ------------------------------------------------------------------ C16

\* Both gravity systems have run in the tick.
GravityStageDone == HasRun("apply_gravity") /\ HasRun("unapply_gravity_to_unloaded")

\* C16: after both gravity systems every unloaded vessel has the zero
\* force, whatever force it carried; and no step of the gravity stage
\* changes the force of a loaded vessel whose parent is not a celestial
\* body.
C16_UnloadedForceZero ==
    [][/\ GravityStageDone'
          => \A e \in Entities :
                (e \in Vessel /\ e \in disabled) => external_force'[e] = ZeroForce
       /\ \A v \in Entities :
             (/\ v \in Vessel
              /\ v \notin disabled
              /\ celestial_parent[v] \notin CelestialBody)
                => external_force'[v] = external_force[v]]_vars

\* C16 witness: both gravity systems have run; the unloaded vessel rove,
\* which carried a force of an earlier tick, has the zero force, and the
\* loaded vessel sat, whose parent is the vessel base, still has the force
\* it carried.
C16_Witness ==
    /\ GravityStageDone
    /\ "rove" \in disturbed
    /\ external_force["rove"] = ZeroForce
    /\ "sat" \in disturbed
    /\ "sat" \notin disabled
    /\ celestial_parent["sat"] = "base"
    /\ external_force["sat"] = StaleForce

\* ------------------------------------------------------------------ C29

\* The step being taken is the state transition of the engine.
StateTransitionStep == frame = "StateTransition" /\ frame' = "Update"

\* C29: a state transition in a mode other than Main leaves the mode as it is
\* or makes it Main; a run of control_switching in Main requests
\* CameraControl when C was just pressed, else VesselControl when V was,
\* else Menu when M was, and else leaves the request as it found it, Escape
\* being ignored; a run in another mode requests nothing but Main.
C29_MainIsHub ==
    [][/\ (StateTransitionStep /\ control_mode # "Main")
             => control_mode' \in {control_mode, "Main"}
       /\ (ControlSwitchingStep /\ control_mode = "Main")
             => next_mode' = IF "KeyC" \in keyboard THEN "CameraControl"
                             ELSE IF "KeyV" \in keyboard THEN "VesselControl"
                             ELSE IF "KeyM" \in keyboard THEN "Menu"
                             ELSE next_mode
       /\ (ControlSwitchingStep /\ control_mode # "Main")
             => next_mode' \in {next_mode, "Main"}
       /\ control_mode # "Main" => next_mode \in {Unchanged, "Main"}]_vars

\* C29 witness: in Main, control_switching has just run in a frame in which
\* M, V and C were pressed together with Escape, and CameraControl is
\* requested.
C29_Witness ==
    /\ frame = "PreUpdate"
    /\ control_mode = "Main"
    /\ keyboard = {"Escape", "KeyM", "KeyV", "KeyC"}
    /\ next_mode = "CameraControl"

\* ------------------------------------------------------------------ C24

\* LOD_VERTS * LOD_DIVISIONS^level in unbounded precision, or TooBig as soon
\* as it no longer fits in 32 bits.
TooBig == <<Half, 0>>

RECURSIVE TimesPow(_, _, _)
TimesPow(x, d, level) ==
    IF level = 0 THEN x
    ELSE IF ~FitsU32(Times(x, d)) THEN TooBig
    ELSE TimesPow(Times(x, d), d, level - 1)

ExactVerts(level) == TimesPow(U32(LOD_VERTS), LOD_DIVISIONS, level)

\* C24: for every level of type u8 for which LOD_VERTS * LOD_DIVISIONS^level
\* fits in 32 bits, a call of verts_at_lod_level yields that product and
\* does not panic.
C24_VertsExact ==
    (conv.stage = "verts" /\ ExactVerts(conv.level) # TooBig)
       => conv.verts = ExactVerts(conv.level)

\* C24 witness: the call for the highest level whose product fits in 32
\* bits has yielded 2^31.
C24_Witness ==
    /\ conv.stage = "verts"
    /\ ExactVerts(conv.level) # TooBig
    /\ ExactVerts(conv.level + 1) = TooBig
    /\ conv.verts = <<32768, 0>>

\* ------------------------------------------------------------------ C21

\* C21: for every start in 0 .. M-1 and every amount in 0 .. M-1, dest after
\* partial_wrapping_copy is dest before the call followed by the elements
\* src[(start + i) mod M] for i = 0 .. amount-1, in that order.
C21_WrappingCopy ==
    conv.stage = "copied"
       => /\ ~conv.fast_buf.panicked
          /\ Len(conv.fast_buf.items) = Len(conv.dest) + conv.amount
          /\ \A k \in 1 .. Len(conv.dest) : conv.fast_buf.items[k] = conv.dest[k]
          /\ \A i \in 0 .. conv.amount - 1 :
                conv.fast_buf.items[Len(conv.dest) + i + 1] =
                   SrcArray[((conv.start + i) % M) + 1]

\* C21 witness: a copy that starts at the last element, wraps around the end
\* of the array, and is appended to a dest that held elements.
C21_Witness ==
    /\ conv.stage = "copied"
    /\ conv.dest = <<41, 40, 41>>
    /\ conv.start = M - 1
    /\ conv.amount = 3
    /\ conv.fast_buf = Items(<<41, 40, 41, M - 1, 0, 1>>)

\* ------------------------------------------------------------------ C22

\* The indices covered by a list of half-open ranges.
Covered(ranges) ==
    UNION {ranges[i][1] .. ranges[i][2] - 1 : i \in DOMAIN ranges}

\* C22: for every list of ranges with start <= end, merge_ranges returns
\* ranges with start <= end, sorted by start, each ending strictly before
\* the next starts, that cover the indices the input covers.
C22_MergedRanges ==
    conv.stage = "merged"
       => /\ \A i \in DOMAIN conv.output : conv.output[i][1] <= conv.output[i][2]
          /\ \A i \in 1 .. Len(conv.output) - 1 :
                /\ conv.output[i][1] <= conv.output[i + 1][1]
                /\ conv.output[i][2] < conv.output[i + 1][1]
          /\ Covered(conv.output) = Covered(conv.ranges)

\* C22 witness: an unsorted input of two adjacent ranges and a separate
\* empty range has been merged into the joined range and the empty one.
C22_Witness ==
    /\ conv.stage = "merged"
    /\ conv.ranges = << <<3, 3>>, <<1, 2>>, <<0, 1>> >>
    /\ conv.output = << <<0, 2>>, <<3, 3>> >>

\* ------------------------------------------------------------------ C23

\* The input range crosses the index verts, counted from the turn in which
\* it starts.
Crosses(range, verts) == (range[1] % verts) + (range[2] - range[1]) > verts

C27_StatedBoundedList ==
    conv.stage = "lods"
       => /\ ~conv.lods.panicked
          /\ Len(conv.lods.items) >= 1
          /\ Len(conv.lods.items) <= conv.ending_level + 1
          /\ conv.lods.items[1] = conv.built.items[1]
          /\ \A i, j \in DOMAIN conv.lods.items :
                conv.lods.items[i].level = conv.lods.items[j].level => i = j

\* C27, the diverging case: two calls with ending level 1 have been made
\* and the list holds the level-0 array and two arrays of level 1.
C27_GrownList ==
    /\ conv.stage = "lods"
    /\ conv.ending_level = 1
    /\ conv.calls = 2
    /\ Len(conv.lods.items) = 3
    /\ conv.lods.items[2].level = 1
    /\ conv.lods.items[3].level = 1

\* ------------------------------------------------------------------ C28

\* C28 as stated: once the entity of an attached camera has no root
\* position any more, every call of get_root_position through a mutable
\* reference returns the position that the last call made while the entity
\* existed returned, however many calls are made; a detached camera always
\* returns its fixed position and is never modified.
C28_StatedStablePosition ==
    conv.stage = "camera"
       => /\ (conv.cam.attached /\ conv.called_alive /\ conv.calls_gone >= 1)
                => conv.returned = conv.alive_return
          /\ ~conv.built.attached
                => /\ conv.cam = conv.built
                   /\ conv.calls >= 1 => conv.returned = conv.built.last_known_pos

\* C28, the diverging case: the camera of components/camera.rs, attached
\* with offset (1, 0) to an entity at (3, 1), returned (4, 1) while the entity
\* existed and (5, 1), then (6, 1), after the entity was despawned.
C28_DriftingCamera ==
    /\ conv.stage = "camera"
    /\ conv.revision = "components/camera.rs"
    /\ conv.cam.attached
    /\ conv.cam.offset = <<1, 0>>
    /\ ~conv.query.alive
    /\ conv.alive_return = <<4, 1>>
    /\ conv.calls_gone = 2
    /\ conv.returned = <<6, 1>>

\* ------------------------------------------------------------------ C25

\* The entity hangs, through at most fuel parents, below an entity without
\* a parent.
RECURSIVE RootedWithin(_, _)
RootedWithin(n, fuel) ==
    /\ n \in Entities
    /\ celestial_parent[n] # NoEntity
    /\ \/ celestial_parent[celestial_parent[n]] = NoEntity
       \/ fuel > 0 /\ RootedWithin(celestial_parent[n], fuel - 1)

\* The entity is reachable from a parentless root along the child relation.
Rooted(n) == RootedWithin(n, Cardinality(Entities))

C30_OneWalkFromRoots ==
    [][Step("write_rail_to_sv")
          => /\ ~panicked'
             /\ \A n \in Entities :
                   /\ ~Rooted(n)
                         => root_pos'[n] = root_pos[n] /\ root_vel'[n] = root_vel[n]
                   /\ (Rooted(n) /\ FilterLoadedVessels(n))
                         => /\ root_pos'[n] = root_pos[n]
                            /\ root_vel'[n] = IF ShiftReached(n)
                                              THEN VAdd(root_vel[n], RailShift(n))
                                              ELSE root_vel[n]]_vars

\* C30 witness: gamma and the unloaded vessel rove are each other's parent,
\* both on rails, and the loaded vessel base hangs below gamma; rail
\* propagation has ended, has placed beta on its orbit, and has left gamma,
\* rove and base where they were.
C30_Witness ==
    /\ ran # <<>>
    /\ ran[Len(ran)] = "write_rail_to_sv"
    /\ celestial_parent["gamma"] = "rove"
    /\ celestial_parent["rove"] = "gamma"
    /\ celestial_parent["base"] = "gamma"
    /\ rail_mode["gamma"].kind = "Orbit"
    /\ rail_mode["rove"].kind = "Surface"
    /\ rail_mode["beta"].kind = "Orbit"
    /\ root_pos["beta"] = get_state_vectors_at_time(BetaOrbit, elapsed).position
    /\ root_pos["gamma"] = ZERO
    /\ root_pos["rove"] = ZERO
    /\ root_vel["base"] = built_vel["base"]
    /\ root_pos["base"] = <<3, 0>>

\* ------------------------------------------------------------------ C26

\* The tick of FrameSyncPlugin this step belongs to has no contact: the
\* physics step, once taken, has found none.
NoContactStep ==
    /\ plugin = "frame_sync"
    /\ \E system \in UNION {Schedule[i] : i \in DOMAIN Schedule} : Step(system)
    /\ (Step("step_simulation") \/ HasRun("step_simulation")) => contact' = {}
    /\ \A e \in Entities : external_force[e] = ZeroForce

\* The step of a tick moves the entity as stated: apply_root_velocity adds
\* the entity's root velocity times dt to its root position, every other
\* system leaves the root position, and no system changes the root velocity.
MovedOnce(e) ==
    /\ root_vel'[e] = root_vel[e]
    /\ root_pos'[e] = IF Step("apply_root_velocity")
                      THEN VAdd(root_pos[e], VScale(root_vel[e], delta))
                      ELSE root_pos[e]

\* C26 as stated: in a tick without forces and contacts every rigid-body
\* entity ends the tick at its root position of the tick's start plus its
\* root velocity times dt, applied once: apply_root_velocity, which runs
\* once in the tick, adds it, and no other system of the tick changes the
\* root position or the root velocity of any entity.
C26_StatedEveryEntity ==
    [][NoContactStep
          => /\ Step("apply_root_velocity") => TimesRun("apply_root_velocity") = 0
             /\ \A e \in Entities : MovedOnce(e)]_vars


\* The entity's offsets from the snapshot of the active vessel are not
\* changed by narrowing to single precision.
ExactOffsets(e) ==
    /\ ExactInF32(VSub(root_pos[e], active_vessel.prev_tick_position))
    /\ ExactInF32(VSub(root_vel[e], active_vessel.prev_tick_velocity))

\* C26: in a tick of FrameSyncPlugin without forces and contacts,
\* apply_root_velocity runs once and adds to the root position of every
\* entity its root velocity times dt, and no other system of the tick
\* changes the root position or root velocity of an entity whose offsets
\* from the active vessel's snapshot are exactly representable in single
\* precision: such an entity ends the tick at its root position of the
\* tick's start plus its root velocity times dt.
C26_MovedOnceWhenExact ==
    [][NoContactStep
          => /\ Step("apply_root_velocity") => TimesRun("apply_root_velocity") = 0
             /\ \A e \in Entities : ExactOffsets(e) => MovedOnce(e)]_vars

\* C26 witness: a tick of FrameSyncPlugin without contact has ended with
\* sat as active vessel. beta, which shares sat's parent and is at rest,
\* was written back and is where it was, although the physics step has
\* advanced its rigid-space position from (0, -4) by its rigid-space
\* velocity (-1, 0); sat and base, whose root velocities differ, have each
\* moved by their own velocity times dt.
C26_Witness ==
    /\ plugin = "frame_sync"
    /\ tick = 1
    /\ TickDone
    /\ contact = {}
    /\ disturbed = {}
    /\ active_vessel.entity = "sat"
    /\ rigid_tf["beta"] = <<-1, -4>>
    /\ root_pos["beta"] = ZERO
    /\ root_vel["beta"] = ZERO
    /\ root_vel["sat"] = <<1, 0>>
    /\ root_pos["sat"] = <<1, 4>>
    /\ root_vel["base"] = <<0, 1>>
    /\ root_pos["base"] = <<3, 1>>

============================================================================
